---- MODULE Spec2Model ----
(***************************************************************************)
(* Model of the venue update pipeline of concert-playlist:                 *)
(*   scripts/updateVenueData.ts       normalizeShows, gatherScrapedShows,  *)
(*                                    runUpdate                            *)
(*   scripts/updateVenueDataUtils.ts  key builders, tryMatch,              *)
(*                                    preserveShowIds, diffShows           *)
(*   src/server/venues/*.ts           the venue table and the scrapers     *)
(*                                                                         *)
(* Text values (dates, times, names, URLs, ids, keys) are sequences of     *)
(* UTF-16 code units, so that joining, hashing and ordering are computed   *)
(* as the code computes them.                                              *)
(***************************************************************************)
EXTENDS Integers, Sequences, FiniteSets, TLC

VARIABLES
    \* --- normalizeShows applied to a list of raw rows and a permutation of it
    nVenue,      \* index into venues of the venue the rows are normalized for
    nRows,       \* the raw rows (ScrapedShow[]) as drawn
    nPerm,       \* a permutation of nRows
    nDone,       \* TRUE once normalizeShows was applied to both
    nOut,        \* normalizeShows(nRows) once applied
    nOutPerm,    \* normalizeShows(nPerm) once applied
    \* --- the matching cascade applied to a previous and a next batch
    mPrev,       \* previousShows
    mNext,       \* nextShows as given
    mPreserved,  \* TRUE once preserveShowIds was applied
    mResult,     \* what preserveShowIds returned
    mPasses,     \* mPasses[k]: the MatchState before and after pass k of
                 \* preserveShowIds and the pairs the pass returned
    mDiffed,     \* TRUE once diffShows was applied
    mCounts,     \* what diffShows returned
    mDiffPasses, \* what each of the five passes of diffShows did
    \* --- runs of runUpdate over the venue files
    rFiles,      \* rFiles[v]: the file <outDir>/<venue id>.json of venues[v]
    rPhase,      \* "idle" before the first run, "running", "exited"
    rToday,      \* todayISO of the current run
    rSelected,   \* selected: the indices into venues the run loops over
    rPos,        \* position in rSelected of the next loop iteration
    rHadFatal,   \* hadFatal
    rIndex,      \* index.venues: the indices pushed so far
    rIndexDone,  \* TRUE once the run wrote index.json
    rExit,       \* exit status of the run once it exited
    rTried,      \* the venues whose loop iteration started in this run, in order
    rFailed,     \* the venues whose scrape reported an error in this run
    rLast,       \* what the last loop iteration did
    \* --- runs of runUpdate for one venue, one after the other
    tVenue,      \* index into venues of the venue given as --venue
    tFile,       \* the file <outDir>/<venue id>.json
    tToday,      \* todayISO of the last run
    tRuns,       \* the last two runs: todayISO and what the loop iteration did
    \* --- the text extraction utilities applied to a text
    pInput,      \* the function, the text given to it and the reference date
    pDone,       \* TRUE once the function was applied
    pOut         \* what it returned

normVars == <<nVenue, nRows, nPerm, nDone, nOut, nOutPerm>>

matchVars == <<mPrev, mNext, mPreserved, mResult, mPasses, mDiffed, mCounts, mDiffPasses>>

runVars == <<rFiles, rPhase, rToday, rSelected, rPos, rHadFatal, rIndex, rIndexDone,
             rExit, rTried, rFailed, rLast>>

repeatVars == <<tVenue, tFile, tToday, tRuns>>

parseVars == <<pInput, pDone, pOut>>

vars == <<normVars, matchVars, runVars, repeatVars, parseVars>>

-----------------------------------------------------------------------------
(* Bounds of the model *)

\* longest list of raw rows normalizeShows is applied to
MaxRows == 2

\* longest batch of shows the matching cascade is applied to
MaxBatch == 2

\* most shows a calendar page lists
MaxListed == 2

\* most pieces between the commas of an opener line
MaxOpeners == 3

\* rows of one date without URL given to normalizeShows at once
MaxDateOnlyRows == 3

-----------------------------------------------------------------------------
(* Text: sequences of UTF-16 code units *)

Empty == <<>>

Space == 32
Comma == 44
Digit0 == 48
Colon == 58
LowerA == 97
Pipe == 124

\* a value that is no text: the model's null / undefined
Null == <<0>>

\* JavaScript  a < b  on strings: code unit order
RECURSIVE StrLess(_, _)
StrLess(a, b) ==
    IF b = Empty THEN FALSE
    ELSE IF a = Empty THEN TRUE
    ELSE IF Head(a) # Head(b) THEN Head(a) < Head(b)
    ELSE StrLess(Tail(a), Tail(b))

\* The collation weight String.prototype.localeCompare gives a code unit
\* (root collation): white space, then punctuation  - , : |, then digits,
\* then letters.  Only the characters that occur in the model are listed.
CollationWeight(c) ==
    CASE c = Space -> 1
      [] c = 45 -> 2
      [] c = Comma -> 3
      [] c = Colon -> 4
      [] c = Pipe -> 5
      [] OTHER -> 100 + c

\* a.localeCompare(b): -1, 0 or 1
RECURSIVE localeCompare(_, _)
localeCompare(a, b) ==
    IF a = Empty /\ b = Empty THEN 0
    ELSE IF a = Empty THEN -1
    ELSE IF b = Empty THEN 1
    ELSE IF CollationWeight(Head(a)) < CollationWeight(Head(b)) THEN -1
    ELSE IF CollationWeight(Head(a)) > CollationWeight(Head(b)) THEN 1
    ELSE localeCompare(Tail(a), Tail(b))

\* Array.prototype.join(sep) on a list of texts
RECURSIVE Join(_, _)
Join(list, sep) ==
    IF list = <<>> THEN Empty
    ELSE IF Len(list) = 1 THEN list[1]
    ELSE list[1] \o sep \o Join(Tail(list), sep)

\* value ?? ""
OrEmpty(value) == IF value = Null THEN Empty ELSE value

\* n.toString() for 0 <= n <= 99
DecimalText(n) ==
    IF n < 10 THEN <<Digit0 + n>> ELSE <<Digit0 + (n \div 10), Digit0 + (n % 10)>>

\* n.toString().padStart(2, "0") for 0 <= n <= 99
PadStart2(n) == <<Digit0 + (n \div 10), Digit0 + (n % 10)>>

\* the elements of a sequence
Range(seq) == {seq[i] : i \in DOMAIN seq}

\* Array.from(new Set(list)).sort(): the distinct texts in code unit order
RECURSIVE SortSet(_)
SortSet(S) ==
    IF S = {} THEN <<>>
    ELSE LET least == CHOOSE x \in S : \A y \in S \ {x} : StrLess(x, y)
         IN  <<least>> \o SortSet(S \ {least})

\* [...new Set(list)].sort()
SortedUnique(list) == SortSet(Range(list))

-----------------------------------------------------------------------------
(* formatTime12, hashString, buildShowId *)

\* A 24-hour time "HH:mm" is the pair <<hour, minute>>; the empty string
\* (time unknown) is Empty.
Time24Text(t) == IF t = Empty THEN Empty ELSE PadStart2(t[1]) \o <<Colon>> \o PadStart2(t[2])

formatTime12(time24) ==
    IF time24 = Empty THEN Null
    ELSE LET hour == time24[1]
             minutes == PadStart2(time24[2])
             meridiem == IF hour >= 12 THEN <<80, 77>> ELSE <<65, 77>>
             hour12 == IF hour % 12 = 0 THEN 12 ELSE hour % 12
         IN  DecimalText(hour12) \o <<Colon>> \o minutes \o <<Space>> \o meridiem

\* 32-bit values are kept as <<high 16 bits, low 16 bits>>
Half == 65536

\* a ^ b on 4-bit values, tabulated
XorBit(a, b, i) == (((a \div i) % 2) + ((b \div i) % 2)) % 2

Xor4 ==
    [a \in 0..15 |-> [b \in 0..15 |->
        XorBit(a, b, 1) + 2 * XorBit(a, b, 2) + 4 * XorBit(a, b, 4) + 8 * XorBit(a, b, 8)]]

\* a ^ b on 16-bit values
Xor16(a, b) ==
    Xor4[a % 16][b % 16]
    + 16 * Xor4[(a \div 16) % 16][(b \div 16) % 16]
    + 256 * Xor4[(a \div 256) % 16][(b \div 256) % 16]
    + 4096 * Xor4[a \div 4096][b \div 4096]

\* hash ^= charCode
HashXor(hash, code) == <<hash[1], Xor16(hash[2], code)>>

\* hash += (hash << 1) + (hash << 4) + (hash << 7) + (hash << 8) + (hash << 24),
\* taken modulo 2^32 as the next  ^=  and the final  >>> 0  take it
HashMix(hash) ==
    LET low == hash[2] * 403
        high == hash[1] * 403 + (low \div Half) + (hash[2] % 256) * 256
    IN  <<high % Half, low % Half>>

HexDigit(d) == IF d < 10 THEN Digit0 + d ELSE LowerA + (d - 10)

Hex4(n) == <<HexDigit(n \div 4096), HexDigit((n \div 256) % 16),
             HexDigit((n \div 16) % 16), HexDigit(n % 16)>>

\* the for loop of hashString (hash[1] is never negative: reading it here makes
\* TLC evaluate the running hash at every character instead of nesting it)
RECURSIVE HashLoop(_, _)
HashLoop(hash, value) ==
    IF value = Empty \/ hash[1] < 0 THEN hash
    ELSE HashLoop(HashMix(HashXor(hash, Head(value))), Tail(value))

\* FNV-1a, offset basis 0x811c9dc5, rendered as 8 hex digits
hashString(value) ==
    LET hash == HashLoop(<<33052, 40389>>, value)
    IN  Hex4(hash[1]) \o Hex4(hash[2])


-----------------------------------------------------------------------------
(* The venue table (src/server/venues/index.ts) *)

venues == <<
    [id |-> <<98, 111, 116, 116, 111, 109, 45, 111, 102, 45, 116, 104, 101, 45, 104, 105, 108, 108>>,
     name |-> "Bottom of the Hill",
     calendarUrl |-> "https://www.bottomofthehill.com/calendar.html"],
    [id |-> <<116, 104, 101, 45, 105, 110, 100, 101, 112, 101, 110, 100, 101, 110, 116>>,
     name |-> "The Independent",
     calendarUrl |-> "https://www.theindependentsf.com"],
    [id |-> <<116, 104, 101, 45, 99, 104, 97, 112, 101, 108>>,
     name |-> "The Chapel",
     calendarUrl |-> "https://thechapelsf.com/music/?list1page=1"],
    [id |-> <<114, 105, 99, 107, 115, 104, 97, 119, 45, 115, 116, 111, 112>>,
     name |-> "Rickshaw Stop",
     calendarUrl |-> "https://rickshawstop.com/calendar/"] >>

-----------------------------------------------------------------------------
(* The texts the model draws its inputs from *)

\* the calendar days "2026-01-01" and "2026-01-02"
DateText(day) == <<50, 48, 50, 54, 45, 48, 49, 45>> \o PadStart2(day)
Dates == {DateText(1), DateText(2)}

\* 24-hour times of rows: unknown, or 20:00
Times24 == {Empty, <<20, 0>>}

\* artist names "A", "B"
Names == {<<65>>, <<66>>}

\* show URLs: "u1", "u2"
Urls == {<<117, 49>>, <<117, 50>>}

\* the lists of k distinct names in code unit order, for every k
SortedNameLists == {SortSet(S) : S \in SUBSET Names}

-----------------------------------------------------------------------------
(* buildShowId (scripts/updateVenueData.ts) *)

\* the canonical string that is hashed
CanonicalText(show) ==
    Join(<<show.venueId, show.dateISO, OrEmpty(show.showUrl),
           Join(show.headliners, <<Comma>>)>>, <<Pipe>>)

\* hashString of every canonical string of the model, computed once
HashOfCanonical ==
    LET texts == {CanonicalText(show) :
                     show \in [venueId : {venues[v].id : v \in DOMAIN venues},
                               dateISO : Dates,
                               showUrl : Urls \cup {Null},
                               headliners : SortedNameLists]}
    IN  [text \in texts |-> hashString(text)]

buildShowId(show) == HashOfCanonical[CanonicalText(show)]

-----------------------------------------------------------------------------
(* Key builders (scripts/updateVenueDataUtils.ts) *)

\* a variant of the exact key that leaves the openers out
ShowKeyWithoutOpeners(show) ==
    Join(<<show.dateISO, OrEmpty(show.startTime), show.venueId, OrEmpty(show.showUrl),
           Join(show.headliners, <<Comma>>)>>, <<Pipe>>)

buildShowKey(show) ==
    Join(<<show.dateISO, OrEmpty(show.startTime), show.venueId, OrEmpty(show.showUrl),
           Join(show.headliners, <<Comma>>), Join(show.openers, <<Comma>>)>>, <<Pipe>>)

\* a variant of the stable key that also depends on the openers
StableKeyWithOpeners(show) ==
    Join(<<show.dateISO, show.venueId, OrEmpty(show.showUrl),
           Join(show.headliners, <<Comma>>), Join(show.openers, <<Comma>>)>>, <<Pipe>>)

buildStableShowKey(show) ==
    Join(<<show.dateISO, show.venueId, OrEmpty(show.showUrl),
           Join(show.headliners, <<Comma>>)>>, <<Pipe>>)

\* show.showUrl ? ... : "" : null and "" are both falsy
buildUrlKey(show) ==
    IF show.showUrl = Null \/ show.showUrl = Empty THEN Empty
    ELSE show.venueId \o <<Pipe>> \o show.showUrl

buildDateTimeKey(show) ==
    show.venueId \o <<Pipe>> \o show.dateISO \o <<Pipe>> \o OrEmpty(show.startTime)

buildHeadlinerTimeKey(show) ==
    show.venueId \o <<Pipe>> \o show.dateISO \o <<Pipe>> \o OrEmpty(show.startTime)
        \o <<Pipe>> \o Join(show.headliners, <<Comma>>)

-----------------------------------------------------------------------------
(* tryMatch, preserveShowIds, diffShows (scripts/updateVenueDataUtils.ts) *)

\* the indices in S in ascending order
RECURSIVE AscendingList(_)
AscendingList(S) ==
    IF S = {} THEN <<>>
    ELSE LET least == CHOOSE i \in S : \A j \in S : i <= j
         IN  <<least>> \o AscendingList(S \ {least})

\* the key functions given to tryMatch, in the order of the passes
KeyFns ==
    <<"buildShowKey", "buildStableShowKey", "buildUrlKey", "buildDateTimeKey",
      "buildHeadlinerTimeKey">>

\* keyFn(show), keyFn being the name of one of the key functions
ApplyKeyFn(keyFn, show) ==
    CASE keyFn = "buildShowKey" -> buildShowKey(show)
      [] keyFn = "buildStableShowKey" -> buildStableShowKey(show)
      [] keyFn = "buildUrlKey" -> buildUrlKey(show)
      [] keyFn = "buildDateTimeKey" -> buildDateTimeKey(show)
      [] keyFn = "buildHeadlinerTimeKey" -> buildHeadlinerTimeKey(show)

\* keyFn applied to every record of a list
KeysOf(shows, keyFn) == [i \in DOMAIN shows |-> ApplyKeyFn(keyFn, shows[i])]

\* a variant that puts the previous records already matched into the Map too
PreviousByKeyOfAll(previousKeys, state) ==
    LET open == {i \in DOMAIN previousKeys : previousKeys[i] # Empty}
    IN  [key \in {previousKeys[i] : i \in open} |->
            AscendingList({i \in open : previousKeys[i] = key})]

\* the Map tryMatch builds first: every non-empty key of a previous record
\* that is not matched yet, with the list of the indices that have it
PreviousByKey(previousKeys, state) ==
    LET open == {i \in DOMAIN previousKeys :
                    i \notin state.matchedPrev /\ previousKeys[i] # Empty}
    IN  [key \in {previousKeys[i] : i \in open} |->
            AscendingList({i \in open : previousKeys[i] = key})]

\* a variant that takes the first candidate when there are several
HasSomeCandidate(map, key) ==
    key # Empty /\ key \in DOMAIN map

\* if (!key) continue; const list = map.get(key); if (!list || list.length !== 1) continue
HasOneCandidate(map, key) ==
    key # Empty /\ key \in DOMAIN map /\ Len(map[key]) = 1

\* the loop over the next records, from index j on. acc is [pairs, state].
RECURSIVE MatchLoop(_, _, _, _)
MatchLoop(map, nextKeys, j, acc) ==
    IF j > Len(nextKeys) THEN acc
    ELSE IF j \in acc.state.matchedNext \/ ~HasOneCandidate(map, nextKeys[j])
        THEN MatchLoop(map, nextKeys, j + 1, acc)
    ELSE MatchLoop(map, nextKeys, j + 1,
            [pairs |-> Append(acc.pairs,
                          [prevIndex |-> map[nextKeys[j]][1], nextIndex |-> j]),
             state |-> [matchedPrev |-> acc.state.matchedPrev \cup {map[nextKeys[j]][1]},
                        matchedNext |-> acc.state.matchedNext \cup {j}]])

\* tryMatch returns the pairs and updates state in place: the model returns both
tryMatch(previous, next, state, keyFn) ==
    MatchLoop(PreviousByKey(KeysOf(previous, keyFn), state), KeysOf(next, keyFn), 1,
              [pairs |-> <<>>, state |-> state])

\* the key function of pass k applied to a show
PassKey(k, show) == ApplyKeyFn(KeyFns[k], show)

NoMatches == [matchedPrev |-> {}, matchedNext |-> {}]

NoCounts == [removed |-> 0, unchanged |-> 0, updated |-> 0, added |-> 0]

\* a variant that writes the showId at the index of the previous record
RECURSIVE AssignAtPrevIndex(_, _, _)
AssignAtPrevIndex(result, previousShows, pairs) ==
    IF pairs = <<>> THEN result
    ELSE AssignAtPrevIndex(
            IF Head(pairs).prevIndex \in DOMAIN result
            THEN [result EXCEPT ![Head(pairs).prevIndex].showId =
                                   previousShows[Head(pairs).prevIndex].showId]
            ELSE result,
            previousShows, Tail(pairs))

\* for (const pair of pairs) result[pair.nextIndex].showId = previous[pair.prevIndex].showId
RECURSIVE AssignShowIds(_, _, _)
AssignShowIds(result, previousShows, pairs) ==
    IF pairs = <<>> THEN result
    ELSE AssignShowIds(
            [result EXCEPT ![Head(pairs).nextIndex].showId =
                               previousShows[Head(pairs).prevIndex].showId],
            previousShows, Tail(pairs))

\* what one pass of preserveShowIds did
PassRecord(before, pass) ==
    [before |-> before, pairs |-> pass.pairs, after |-> pass.state]

\* a variant in which result holds the objects of nextShows themselves
NextShowsShared(nextShows, result) == result

\* const result = nextShows.map((show) => ({ ...show })): the records of result
\* are copies, so nextShows is after the call what it was before, whatever was
\* assigned to the records of result
NextShowsAfter(nextShows, result) == nextShows

\* preserveShowIds: the five passes in turn, each assigning the showId of the
\* previous record to the next record of every pair it returned. The value is
\* [result, passes]: the result array and what every pass did.
PreserveRun(nextShows, previousShows) ==
    LET exact == tryMatch(previousShows, nextShows, NoMatches, "buildShowKey")
        result1 == AssignShowIds(nextShows, previousShows, exact.pairs)
        stable == tryMatch(previousShows, result1, exact.state, "buildStableShowKey")
        result2 == AssignShowIds(result1, previousShows, stable.pairs)
        url == tryMatch(previousShows, result2, stable.state, "buildUrlKey")
        result3 == AssignShowIds(result2, previousShows, url.pairs)
        dateTime == tryMatch(previousShows, result3, url.state, "buildDateTimeKey")
        result4 == AssignShowIds(result3, previousShows, dateTime.pairs)
        headlinerTime == tryMatch(previousShows, result4, dateTime.state,
                                  "buildHeadlinerTimeKey")
        result5 == AssignShowIds(result4, previousShows, headlinerTime.pairs)
    IN  [result |-> result5,
         passes |-> <<PassRecord(NoMatches, exact),
                      PassRecord(exact.state, stable),
                      PassRecord(stable.state, url),
                      PassRecord(url.state, dateTime),
                      PassRecord(dateTime.state, headlinerTime)>>]

preserveShowIds(nextShows, previousShows) == PreserveRun(nextShows, previousShows).result

\* a variant that counts the pairs of the stable-key pass as unchanged
diffShowsStableUnchanged(previous, next) ==
    LET unchanged == tryMatch(previous, next, NoMatches, "buildShowKey")
        stable == tryMatch(previous, next, unchanged.state, "buildStableShowKey")
        url == tryMatch(previous, next, stable.state, "buildUrlKey")
        dateTime == tryMatch(previous, next, url.state, "buildDateTimeKey")
        headlinerTime == tryMatch(previous, next, dateTime.state, "buildHeadlinerTimeKey")
        updatedPairs == url.pairs \o dateTime.pairs \o headlinerTime.pairs
    IN  [removed |-> Len(previous) - Cardinality(headlinerTime.state.matchedPrev),
         unchanged |-> Len(unchanged.pairs) + Len(stable.pairs),
         updated |-> Len(updatedPairs),
         added |-> Len(next) - Cardinality(headlinerTime.state.matchedNext)]

\* a variant without the pass by buildHeadlinerTimeKey
DiffPassesOfFour(previous, next) ==
    LET unchanged == tryMatch(previous, next, NoMatches, "buildShowKey")
        stable == tryMatch(previous, next, unchanged.state, "buildStableShowKey")
        url == tryMatch(previous, next, stable.state, "buildUrlKey")
        dateTime == tryMatch(previous, next, url.state, "buildDateTimeKey")
    IN  <<PassRecord(NoMatches, unchanged),
          PassRecord(unchanged.state, stable),
          PassRecord(stable.state, url),
          PassRecord(url.state, dateTime),
          PassRecord(dateTime.state, [pairs |-> <<>>, state |-> dateTime.state])>>

\* the five calls of tryMatch in diffShows, on a fresh MatchState: what every
\* pass did
DiffPasses(previous, next) ==
    LET unchanged == tryMatch(previous, next, NoMatches, "buildShowKey")
        stable == tryMatch(previous, next, unchanged.state, "buildStableShowKey")
        url == tryMatch(previous, next, stable.state, "buildUrlKey")
        dateTime == tryMatch(previous, next, url.state, "buildDateTimeKey")
        headlinerTime == tryMatch(previous, next, dateTime.state, "buildHeadlinerTimeKey")
    IN  <<PassRecord(NoMatches, unchanged),
          PassRecord(unchanged.state, stable),
          PassRecord(stable.state, url),
          PassRecord(url.state, dateTime),
          PassRecord(dateTime.state, headlinerTime)>>

\* diffShows: the same five passes on a fresh MatchState, and the four counts
diffShows(previous, next) ==
    LET unchanged == tryMatch(previous, next, NoMatches, "buildShowKey")
        stable == tryMatch(previous, next, unchanged.state, "buildStableShowKey")
        url == tryMatch(previous, next, stable.state, "buildUrlKey")
        dateTime == tryMatch(previous, next, url.state, "buildDateTimeKey")
        headlinerTime == tryMatch(previous, next, dateTime.state, "buildHeadlinerTimeKey")
        updatedPairs == stable.pairs \o url.pairs \o dateTime.pairs \o headlinerTime.pairs
    IN  [removed |-> Len(previous) - Cardinality(headlinerTime.state.matchedPrev),
         unchanged |-> Len(unchanged.pairs),
         updated |-> Len(updatedPairs),
         added |-> Len(next) - Cardinality(headlinerTime.state.matchedNext)]

-----------------------------------------------------------------------------
(* normalizeShows (scripts/updateVenueData.ts) *)

\* A raw row (ScrapedShow) is [date, time, artists, roles, showUrl]; its venue
\* and sourcePageUrl fields are not read by normalizeShows.

\* item.showUrl || null
RowShowUrl(item) == IF item.showUrl = Empty THEN Null ELSE item.showUrl

\* item.roles[0] ?? "headliner"
RowRole(item) == IF item.roles = <<>> THEN "headliner" ELSE item.roles[1]

\* the grouping key of a row, Null when the row has none
RowKey(item) ==
    IF RowShowUrl(item) # Null
        THEN <<117, 114, 108, 58>> \o RowShowUrl(item)
    ELSE IF RowRole(item) = "opener"
        THEN Null
    ELSE <<100, 97, 116, 101, 58>> \o item.date
             \o <<124, 104, 101, 97, 100, 108, 105, 110, 101, 114, 58>>
             \o Join(item.artists, <<Comma>>)

\* a variant that finds no show for an opener row
NoDateOnlyShow(shows, item) == 0

\* a variant that takes the first such show
FirstDateOnlyShow(shows, item) ==
    LET hits == {i \in DOMAIN shows :
                    shows[i].dateISO = item.date /\ shows[i].showUrl = Null}
    IN  IF hits = {} THEN 0 ELSE CHOOSE i \in hits : \A j \in hits : i <= j

\* [...shows].reverse().find(...): the index of the last show with the row's
\* date and no URL, 0 when there is none
LastDateOnlyShow(shows, item) ==
    LET hits == {i \in DOMAIN shows :
                    shows[i].dateISO = item.date /\ shows[i].showUrl = Null}
    IN  IF hits = {} THEN 0 ELSE CHOOSE i \in hits : \A j \in hits : j <= i

\* One iteration of the grouping loop. acc.byKey maps a key to the index in
\* acc.shows of the show object the Map holds.
GroupRow(acc, item, venue) ==
    LET key == RowKey(item)
        role == RowRole(item)
        byKeyHit == IF key # Null /\ key \in DOMAIN acc.byKey THEN acc.byKey[key] ELSE 0
        found == IF byKeyHit = 0 /\ role = "opener"
                     THEN LastDateOnlyShow(acc.shows, item)
                     ELSE byKeyHit
        created == [showId |-> Empty,
                    dateISO |-> item.date,
                    startTime |-> formatTime12(item.time),
                    venueId |-> venue.id,
                    venueName |-> venue.name,
                    showUrl |-> RowShowUrl(item),
                    sourceUrl |-> venue.calendarUrl,
                    headliners |-> <<>>,
                    openers |-> <<>>]
        shows1 == IF found = 0 THEN Append(acc.shows, created) ELSE acc.shows
        index == IF found = 0 THEN Len(shows1) ELSE found
        byKey1 == IF found = 0 /\ key # Null
                      THEN (key :> index) @@ acc.byKey
                      ELSE acc.byKey
        shows2 == IF role = "opener"
                      THEN [shows1 EXCEPT ![index].openers = @ \o item.artists]
                      ELSE [shows1 EXCEPT ![index].headliners = @ \o item.artists]
    IN  [byKey |-> byKey1, shows |-> shows2]

RECURSIVE GroupRows(_, _, _)
GroupRows(acc, scraped, venue) ==
    IF scraped = <<>> THEN acc
    ELSE GroupRows(GroupRow(acc, Head(scraped), venue), Tail(scraped), venue)

\* a variant that leaves the openers as the rows gave them
NormalizeShowOpenersAsGiven(show) ==
    LET headliners == SortedUnique(show.headliners)
    IN  [show EXCEPT !.headliners = headliners,
                     !.showId = buildShowId([show EXCEPT !.headliners = headliners])]

\* a variant whose showId also tells the start time
NormalizeShowIdWithTime(show) ==
    LET headliners == SortedUnique(show.headliners)
        openers == SortedUnique(show.openers)
    IN  [show EXCEPT !.headliners = headliners,
                     !.openers = openers,
                     !.showId = buildShowId([show EXCEPT !.headliners = headliners])
                                    \o OrEmpty(show.startTime)]

\* the callback of shows.map: names deduplicated and sorted, showId computed
NormalizeShow(show) ==
    LET headliners == SortedUnique(show.headliners)
        openers == SortedUnique(show.openers)
    IN  [show EXCEPT !.headliners = headliners,
                     !.openers = openers,
                     !.showId = buildShowId([show EXCEPT !.headliners = headliners])]

RECURSIVE NormalizeEach(_)
NormalizeEach(shows) ==
    IF shows = <<>> THEN <<>>
    ELSE <<NormalizeShow(Head(shows))>> \o NormalizeEach(Tail(shows))

\* the Map keyed by buildShowKey: the first show of every key, in first-seen order
RECURSIVE DedupeShows(_, _)
DedupeShows(shows, seen) ==
    IF shows = <<>> THEN <<>>
    ELSE LET key == buildShowKey(Head(shows))
         IN  IF key \in seen
                 THEN DedupeShows(Tail(shows), seen)
                 ELSE <<Head(shows)>> \o DedupeShows(Tail(shows), seen \cup {key})

\* the comparator given to finalShows.sort
CompareShows(a, b) ==
    IF a.dateISO # b.dateISO
        THEN localeCompare(a.dateISO, b.dateISO)
    ELSE IF OrEmpty(a.startTime) # OrEmpty(b.startTime)
        THEN localeCompare(OrEmpty(a.startTime), OrEmpty(b.startTime))
    ELSE localeCompare(Join(a.headliners, <<Comma>>), Join(b.headliners, <<Comma>>))

\* a variant that leaves the shows in the order of their groups
AppendShow(sorted, show) == Append(sorted, show)

\* Array.prototype.sort is stable: an element goes after every element already
\* placed that does not compare greater than it
InsertShow(sorted, show) ==
    LET after == {i \in DOMAIN sorted : CompareShows(show, sorted[i]) < 0}
        at == IF after = {} THEN Len(sorted) + 1
              ELSE CHOOSE i \in after : \A j \in after : i <= j
    IN  SubSeq(sorted, 1, at - 1) \o <<show>> \o SubSeq(sorted, at, Len(sorted))

RECURSIVE SortShows(_, _)
SortShows(sorted, rest) ==
    IF rest = <<>> THEN sorted
    ELSE SortShows(InsertShow(sorted, Head(rest)), Tail(rest))

normalizeShows(venue, scraped) ==
    SortShows(<<>>,
        DedupeShows(
            NormalizeEach(GroupRows([byKey |-> <<>>, shows |-> <<>>], scraped, venue).shows),
            {}))

-----------------------------------------------------------------------------
(* Inputs of normalizeShows *)

Roles == {"headliner", "opener"}

RawRows ==
    [date : Dates, time : Times24, artists : {<<n>> : n \in Names},
     roles : {<<r>> : r \in Roles}, showUrl : Urls \cup {Empty}]

RECURSIVE ListsUpTo(_, _)
ListsUpTo(S, n) ==
    IF n = 0 THEN {<<>>}
    ELSE LET shorter == ListsUpTo(S, n - 1)
         IN  shorter \cup {Append(l, x) : l \in {s \in shorter : Len(s) = n - 1}, x \in S}

\* the variables of the other specifications, at rest
NormIdle ==
    /\ nVenue = 1 /\ nRows = <<>> /\ nPerm = <<>>
    /\ nDone = FALSE /\ nOut = <<>> /\ nOutPerm = <<>>

MatchIdle ==
    /\ mPrev = <<>> /\ mNext = <<>> /\ mPreserved = FALSE
    /\ mResult = <<>> /\ mPasses = <<>>
    /\ mDiffed = FALSE /\ mCounts = NoCounts /\ mDiffPasses = <<>>

\* a venue file: missing, not valid JSON, or a VenueDataFile with its shows
MissingFile == [state |-> "missing", shows |-> <<>>]

InvalidFile == [state |-> "invalid", shows |-> <<>>]

DataFile(shows) == [state |-> "data", shows |-> shows]

\* rLast before any loop iteration
NoIteration ==
    [venue |-> 0, outcome |-> "none", before |-> MissingFile, rows |-> <<>>,
     nextShows |-> <<>>, showsWithIds |-> <<>>, countsAll |-> NoCounts,
     countsFuture |-> NoCounts, logCounts |-> NoCounts, wrote |-> FALSE]

RunIdle ==
    /\ rFiles = [v \in DOMAIN venues |-> MissingFile]
    /\ rPhase = "idle"
    /\ rToday = DateText(1)
    /\ rSelected = <<>> /\ rPos = 1 /\ rHadFatal = FALSE
    /\ rIndex = <<>> /\ rIndexDone = FALSE /\ rExit = 0
    /\ rTried = <<>> /\ rFailed = {}
    /\ rLast = NoIteration

RepeatIdle ==
    /\ tVenue = 1 /\ tFile = MissingFile /\ tToday = DateText(1) /\ tRuns = <<>>

\* pInput when no function is applied
NoInput == [fn |-> "none"]

ParseIdle ==
    /\ pInput = NoInput /\ pDone = FALSE /\ pOut = Empty

\* the rearrangements of a list
Rearrangements(list) ==
    {[i \in DOMAIN list |-> list[f[i]]] : f \in Permutations(DOMAIN list)}

\* the venues normalizeShows is applied for
NormVenues == {1, 2}

\* a text that orders the raw rows, to list every multiset of rows once
RowOrderText(row) ==
    Join(<<row.date, Time24Text(row.time), Join(row.artists, <<Comma>>),
           IF RowRole(row) = "opener" THEN <<1>> ELSE <<0>>, row.showUrl>>, <<Pipe>>)

InOrder(rows) ==
    \A i \in 1..(Len(rows) - 1) :
        ~StrLess(RowOrderText(rows[i + 1]), RowOrderText(rows[i]))

\* rows of day 1 at 20:00 without URL: with several of them there are several
\* shows an opener row could be added to
DateOnlyRows ==
    {row \in RawRows :
        row.date = DateText(1) /\ row.time = <<20, 0>> /\ row.showUrl = Empty}

DateOnlyRowLists ==
    {rows \in ListsUpTo(DateOnlyRows, MaxDateOnlyRows) :
        Len(rows) = MaxDateOnlyRows /\ InOrder(rows)}

\* nRows lists a multiset of rows in a fixed order and nPerm is any
\* rearrangement of it, so nPerm ranges over every list of rows
InitNorm ==
    /\ nVenue \in NormVenues
    /\ nRows \in {rows \in ListsUpTo(RawRows, MaxRows) : InOrder(rows)} \cup DateOnlyRowLists
    /\ nPerm \in Rearrangements(nRows)
    /\ nDone = FALSE
    /\ nOut = <<>>
    /\ nOutPerm = <<>>
    /\ MatchIdle
    /\ RunIdle
    /\ RepeatIdle
    /\ ParseIdle

\* normalizeShows applied to the rows as drawn and to the permutation
Normalize ==
    /\ ~nDone
    /\ nDone' = TRUE
    /\ nOut' = normalizeShows(venues[nVenue], nRows)
    /\ nOutPerm' = normalizeShows(venues[nVenue], nPerm)
    /\ UNCHANGED <<nVenue, nRows, nPerm>>
    /\ UNCHANGED matchVars
    /\ UNCHANGED runVars
    /\ UNCHANGED <<repeatVars, parseVars>>

NextNorm == Normalize

SpecNorm == InitNorm /\ [][NextNorm]_vars

-----------------------------------------------------------------------------
(* The matching cascade on a previous and a next batch *)

\* what a listing says beyond date, URL and headliner: the show at "8:00 PM",
\* the same with an opener added, and the same with the time withdrawn
ShowDetails ==
    {[startTime |-> formatTime12(<<20, 0>>), openers |-> <<>>],
     [startTime |-> formatTime12(<<20, 0>>), openers |-> << <<66>> >>],
     [startTime |-> formatTime12(Empty), openers |-> <<>>]}

\* the shows of one venue on one day the batches are drawn from, without
\* showId: "A" with any of the details, "B" at "8:00 PM" without opener, each
\* with no showUrl or at "u1"
MatchShows ==
    {[showId |-> Empty, dateISO |-> DateText(1), startTime |-> d.startTime,
      venueId |-> venues[1].id, venueName |-> venues[1].name,
      showUrl |-> u, sourceUrl |-> venues[1].calendarUrl,
      headliners |-> <<n>>, openers |-> d.openers] :
        d \in ShowDetails, u \in {Null, <<117, 49>>}, n \in Names}
    \ {show \in [showId : {Empty}, dateISO : {DateText(1)},
                 startTime : {Null, formatTime12(<<20, 0>>)},
                 venueId : {venues[1].id}, venueName : {venues[1].name},
                 showUrl : {Null, <<117, 49>>}, sourceUrl : {venues[1].calendarUrl},
                 headliners : {<< <<66>> >>}, openers : {<<>>, << <<66>> >>}] :
            show.startTime = Null \/ show.openers # <<>>}

\* a batch as normalizeShows leaves it: no exact key twice, in sort order
IsBatch(shows) ==
    /\ \A i, j \in DOMAIN shows : i # j => buildShowKey(shows[i]) # buildShowKey(shows[j])
    /\ \A i \in 1..(Len(shows) - 1) : CompareShows(shows[i], shows[i + 1]) <= 0

Batches == {shows \in ListsUpTo(MatchShows, MaxBatch) : IsBatch(shows)}

\* the next batch carries the content hashes normalizeShows computes
WithContentIds(shows) ==
    [i \in DOMAIN shows |-> [shows[i] EXCEPT !.showId = buildShowId(shows[i])]]

\* the previous batch carries ids of its own: "old1", "old2", ...
WithOldIds(shows) ==
    [i \in DOMAIN shows |->
        [shows[i] EXCEPT !.showId = <<111, 108, 100>> \o DecimalText(i)]]

InitMatch ==
    /\ mPrev \in {WithOldIds(shows) : shows \in Batches}
    /\ mNext \in {WithContentIds(shows) : shows \in Batches}
    /\ mPreserved = FALSE
    /\ mResult = <<>>
    /\ mPasses = <<>>
    /\ mDiffed = FALSE
    /\ mCounts = NoCounts
    /\ mDiffPasses = <<>>
    /\ NormIdle
    /\ RunIdle
    /\ RepeatIdle
    /\ ParseIdle

\* preserveShowIds applied to the batches: what it returns, what its passes did,
\* and the array given as nextShows as the call leaves it
Preserve ==
    /\ ~mPreserved
    /\ mPreserved' = TRUE
    /\ \E run \in {PreserveRun(mNext, mPrev)} :
           /\ mResult' = run.result
           /\ mPasses' = run.passes
           /\ mNext' = NextShowsAfter(mNext, run.result)
    /\ UNCHANGED <<mPrev, mDiffed, mCounts, mDiffPasses>>
    /\ UNCHANGED normVars
    /\ UNCHANGED runVars
    /\ UNCHANGED <<repeatVars, parseVars>>

\* diffShows applied to the previous batch and what preserveShowIds returned,
\* as runUpdate applies it
Diff ==
    /\ mPreserved
    /\ ~mDiffed
    /\ mDiffed' = TRUE
    /\ mCounts' = diffShows(mPrev, mResult)
    /\ mDiffPasses' = DiffPasses(mPrev, mResult)
    /\ UNCHANGED <<mPrev, mNext, mPreserved, mResult, mPasses>>
    /\ UNCHANGED normVars
    /\ UNCHANGED runVars
    /\ UNCHANGED <<repeatVars, parseVars>>

NextMatch == Preserve \/ Diff

SpecMatch == InitMatch /\ [][NextMatch]_vars

-----------------------------------------------------------------------------
(* The scrapers as gatherScrapedShows sees them (bottomOfTheHill.ts,
   theIndependent.ts, scripts/updateVenueData.ts) *)

\* the shows a calendar page can list, as the parsers return them (ParsedShow):
\* "A" on day 1 at "u1" and "B" on day 2 at "u2", each alone or with an opener
Listings ==
    {[dateISO |-> DateText(1), time24 |-> <<20, 0>>, headliner |-> <<65>>,
      openers |-> os, showUrl |-> <<117, 49>>] : os \in {<<>>, << <<66>> >>}}
    \cup
    {[dateISO |-> DateText(2), time24 |-> <<20, 0>>, headliner |-> <<66>>,
      openers |-> os, showUrl |-> <<117, 50>>] : os \in {<<>>, << <<65>> >>}}

\* the pages of the first venue list any of them; the page of another venue
\* lists at most the show "B" of day 2
ListingsOf(v) ==
    IF v = 1 THEN Listings
    ELSE {l \in Listings : l.dateISO = DateText(2) /\ l.openers = <<>>}

\* the elements of a set, listed in some order
RECURSIVE SeqOf(_)
SeqOf(S) ==
    IF S = {} THEN <<>>
    ELSE LET x == CHOOSE y \in S : TRUE
         IN  <<x>> \o SeqOf(S \ {x})

\* what the parser returns for a page of venues[v]
Pages(v) == {SeqOf(S) : S \in {T \in SUBSET ListingsOf(v) : Cardinality(T) <= MaxListed}}

\* mergedArgs.startDateISO ?? "1900-01-01", mergedArgs.endDateISO ?? "2100-12-31"
StartDateISO == <<49, 57, 48, 48, 45, 48, 49, 45, 48, 49>>

EndDateISO == <<50, 49, 48, 48, 45, 49, 50, 45, 51, 49>>

\* Date.parse orders ISO dates as their texts are ordered
isWithinRange(dateISO, startDateISO, endDateISO) ==
    ~StrLess(dateISO, startDateISO) /\ ~StrLess(endDateISO, dateISO)

\* one row per opener of a parsed show
RECURSIVE OpenerRows(_, _)
OpenerRows(show, openers) ==
    IF openers = <<>> THEN <<>>
    ELSE <<[date |-> show.dateISO, time |-> show.time24, artists |-> <<Head(openers)>>,
            roles |-> <<"opener">>, showUrl |-> show.showUrl]>>
         \o OpenerRows(show, Tail(openers))

\* a headliner row, then the opener rows, all with the date, time and URL of the show
toScrapedShows(show) ==
    <<[date |-> show.dateISO, time |-> show.time24, artists |-> <<show.headliner>>,
       roles |-> <<"headliner">>, showUrl |-> show.showUrl]>>
    \o OpenerRows(show, show.openers)

\* buildBottomShows, buildIndependentShows: the rows of the parsed shows in range
RECURSIVE buildShows(_)
buildShows(parsed) ==
    IF parsed = <<>> THEN <<>>
    ELSE (IF isWithinRange(Head(parsed).dateISO, StartDateISO, EndDateISO)
          THEN toScrapedShows(Head(parsed)) ELSE <<>>)
         \o buildShows(Tail(parsed))

\* what a scrape comes to: an error message was emitted, the scraper raised,
\* or rows were emitted
ScrapeError(detail) == [kind |-> "error", detail |-> detail, scraped |-> <<>>]

ScrapeRaised(detail) == [kind |-> "raised", detail |-> detail, scraped |-> <<>>]

Scraped(rows) == [kind |-> "scraped", detail |-> "", scraped |-> rows]

\* scrapeBottomOfTheHill: fetch and parser failures are caught and reported, as
\* is a page with no show; response.text() is awaited outside any try
scrapeBottomOfTheHill ==
    {ScrapeError("Failed to fetch"), ScrapeError("fetch failed with status"),
     ScrapeRaised("response.text() rejected"),
     ScrapeError("Parsing failed"), ScrapeError("Parsed 0 shows")}
    \cup {Scraped(buildShows(parsed)) : parsed \in Pages(1) \ {<<>>}}

\* scrapeTheIndependent: fetch failures are caught and reported; response.text()
\* and parseIndependentHtml are called outside any try, and a page with no show
\* is no error
scrapeTheIndependent ==
    {ScrapeError("Failed to fetch"), ScrapeError("fetch failed with status"),
     ScrapeRaised("response.text() rejected"),
     ScrapeRaised("parseIndependentHtml raised")}
    \cup {Scraped(buildShows(parsed)) : parsed \in Pages(2)}

TheIndependentId == <<116, 104, 101, 45, 105, 110, 100, 101, 112, 101, 110, 100, 101, 110, 116>>

BottomOfTheHillId ==
    <<98, 111, 116, 116, 111, 109, 45, 111, 102, 45, 116, 104, 101, 45, 104, 105, 108, 108>>

gatherScrapedShows(venueId) ==
    IF venueId = TheIndependentId THEN scrapeTheIndependent
    ELSE IF venueId = BottomOfTheHillId THEN scrapeBottomOfTheHill
    ELSE {ScrapeError("No scraper wired")}

\* argsOverride.scrapedByVenue[venue.id], when given, replaces the scrape
Gathered(v) ==
    gatherScrapedShows(venues[v].id)
    \cup {Scraped(buildShows(parsed)) : parsed \in Pages(v)}

-----------------------------------------------------------------------------
(* runUpdate (scripts/updateVenueData.ts) *)

\* --venue: "all", the id of a venue, or "x"
AllVenues == <<97, 108, 108>>

VenueArgs == {AllVenues, <<120>>} \cup {venues[v].id : v \in DOMAIN venues}

\* mergedArgs.venue === "all" ? venues : venues.filter((venue) => venue.id === mergedArgs.venue)
SelectedVenues(arg) ==
    AscendingList({v \in DOMAIN venues : arg = AllVenues \/ venues[v].id = arg})

\* a variant that compares the whole batches
AllShows(shows, todayISO) == shows

\* shows.filter((show) => show.dateISO >= todayISO)
FutureShows(shows, todayISO) ==
    SelectSeq(shows, LAMBDA show : ~StrLess(show.dateISO, todayISO))

\* a variant that writes whatever the diff counts
shouldWriteAlways(previous, countsFuture) == TRUE

\* a variant that writes only when the diff counts a change
shouldWriteOnChange(previous, countsFuture) ==
    countsFuture.updated > 0 \/ countsFuture.added > 0 \/ countsFuture.removed > 0

\* a variant that overlooks removed shows
shouldWriteUnlessRemoved(previous, countsFuture) ==
    previous.state # "data" \/ countsFuture.updated > 0 \/ countsFuture.added > 0

\* !previous || countsFuture.updated > 0 || countsFuture.added > 0 || countsFuture.removed > 0
shouldWrite(previous, countsFuture) ==
    \/ previous.state # "data"
    \/ countsFuture.updated > 0
    \/ countsFuture.added > 0
    \/ countsFuture.removed > 0

\* the counts of the log line: those of the whole batches when the file is
\* written, else the unchanged count alone
LogCounts(write, countsAll) ==
    IF write THEN countsAll
    ELSE [unchanged |-> countsAll.unchanged, updated |-> 0, added |-> 0, removed |-> 0]

\* a variant that keeps the previous shows dated before today
PayloadWithPastShows(showsWithIds, previousShows, todayISO) ==
    SelectSeq(previousShows, LAMBDA show : StrLess(show.dateISO, todayISO)) \o showsWithIds

\* payload.shows
PayloadShows(showsWithIds, previousShows, todayISO) == showsWithIds

\* a variant that always reports success
ExitZero(hadFatal) == 0

\* if (hadFatal) process.exit(1)
ExitStatus(hadFatal) == IF hadFatal THEN 1 ELSE 0

\* one loop iteration from a scrape that emitted rows and no error: what it
\* computes, whether it writes, and the file it leaves
Iteration(v, previous, scraped, todayISO) ==
    LET nextShows == normalizeShows(venues[v], scraped)
        showsWithIds == preserveShowIds(nextShows, previous.shows)
        countsAll == diffShows(previous.shows, showsWithIds)
        countsFuture == diffShows(FutureShows(previous.shows, todayISO),
                                  FutureShows(showsWithIds, todayISO))
        write == shouldWrite(previous, countsFuture)
    IN  [venue |-> v, outcome |-> "updated", before |-> previous, rows |-> scraped,
         nextShows |-> nextShows, showsWithIds |-> showsWithIds,
         countsAll |-> countsAll, countsFuture |-> countsFuture,
         logCounts |-> LogCounts(write, countsAll), wrote |-> write]

\* the output directory before the first run: no file of a venue was written
\* yet, the directory is empty or the files in it are not valid JSON
InitRun ==
    /\ rFiles \in {[v \in DOMAIN venues |-> file] : file \in {MissingFile, InvalidFile}}
    /\ rPhase = "idle"
    /\ rToday = DateText(1)
    /\ rSelected = <<>> /\ rPos = 1 /\ rHadFatal = FALSE
    /\ rIndex = <<>> /\ rIndexDone = FALSE /\ rExit = 0
    /\ rTried = <<>> /\ rFailed = {}
    /\ rLast = NoIteration
    /\ NormIdle
    /\ MatchIdle
    /\ RepeatIdle
    /\ ParseIdle

\* runUpdate up to the loop, with some venue selected. The clock never goes back.
StartRun ==
    /\ rPhase # "running"
    /\ \E arg \in VenueArgs, todayISO \in Dates :
           /\ ~StrLess(todayISO, rToday)
           /\ SelectedVenues(arg) # <<>>
           /\ rSelected' = SelectedVenues(arg)
           /\ rToday' = todayISO
    /\ rPhase' = "running"
    /\ rPos' = 1 /\ rHadFatal' = FALSE
    /\ rIndex' = <<>> /\ rIndexDone' = FALSE /\ rExit' = 0
    /\ rTried' = <<>> /\ rFailed' = {}
    /\ rLast' = NoIteration
    /\ UNCHANGED rFiles
    /\ UNCHANGED <<normVars, matchVars, repeatVars, parseVars>>

\* runUpdate with no venue selected: process.exit(1) before anything is written
NoVenueMatched ==
    /\ rPhase # "running"
    /\ \E arg \in VenueArgs :
           /\ SelectedVenues(arg) = <<>>
           /\ rSelected' = <<>>
    /\ rPhase' = "exited"
    /\ rExit' = 1
    /\ rPos' = 1 /\ rHadFatal' = FALSE
    /\ rIndex' = <<>> /\ rIndexDone' = FALSE
    /\ rTried' = <<>> /\ rFailed' = {}
    /\ rLast' = NoIteration
    /\ UNCHANGED <<rFiles, rToday>>
    /\ UNCHANGED <<normVars, matchVars, repeatVars, parseVars>>

\* a loop iteration whose scrape reported an error: hadFatal = true; continue
SkipFailedVenue ==
    /\ rPhase = "running"
    /\ rPos <= Len(rSelected)
    /\ \E o \in Gathered(rSelected[rPos]) :
           /\ o.kind = "error"
           /\ rLast' = [NoIteration EXCEPT !.venue = rSelected[rPos], !.outcome = "failed",
                                           !.before = rFiles[rSelected[rPos]]]
    /\ rHadFatal' = TRUE
    /\ rPos' = rPos + 1
    /\ rTried' = Append(rTried, rSelected[rPos])
    /\ rFailed' = rFailed \cup {rSelected[rPos]}
    /\ UNCHANGED <<rFiles, rPhase, rToday, rSelected, rIndex, rIndexDone, rExit>>
    /\ UNCHANGED <<normVars, matchVars, repeatVars, parseVars>>

\* a loop iteration whose scrape raised: nothing in runUpdate catches it, the
\* promise of runUpdate rejects and the script exits with status 1
ScrapeRaises ==
    /\ rPhase = "running"
    /\ rPos <= Len(rSelected)
    /\ \E o \in Gathered(rSelected[rPos]) :
           /\ o.kind = "raised"
           /\ rLast' = [NoIteration EXCEPT !.venue = rSelected[rPos], !.outcome = "raised",
                                           !.before = rFiles[rSelected[rPos]]]
    /\ rPhase' = "exited"
    /\ rExit' = 1
    /\ rTried' = Append(rTried, rSelected[rPos])
    /\ UNCHANGED <<rFiles, rToday, rSelected, rPos, rHadFatal, rIndex, rIndexDone, rFailed>>
    /\ UNCHANGED <<normVars, matchVars, repeatVars, parseVars>>

\* a loop iteration whose scrape emitted rows and no error: normalizeShows, the
\* previous file, preserveShowIds, the diff of the shows dated today or later,
\* the write if there is one, and the entry of index.venues
UpdateVenue ==
    /\ rPhase = "running"
    /\ rPos <= Len(rSelected)
    /\ \E o \in Gathered(rSelected[rPos]) :
           /\ o.kind = "scraped"
           /\ \E it \in {Iteration(rSelected[rPos], rFiles[rSelected[rPos]], o.scraped, rToday)} :
                  /\ rLast' = it
                  /\ rFiles' = IF it.wrote
                                THEN [rFiles EXCEPT ![it.venue] =
                                        DataFile(PayloadShows(it.showsWithIds,
                                                              it.before.shows, rToday))]
                                ELSE rFiles
    /\ rIndex' = Append(rIndex, rSelected[rPos])
    /\ rPos' = rPos + 1
    /\ rTried' = Append(rTried, rSelected[rPos])
    /\ UNCHANGED <<rPhase, rToday, rSelected, rHadFatal, rIndexDone, rExit, rFailed>>
    /\ UNCHANGED <<normVars, matchVars, repeatVars, parseVars>>

\* after the loop: index.json is written, and the exit status tells hadFatal
FinishRun ==
    /\ rPhase = "running"
    /\ rPos > Len(rSelected)
    /\ rIndexDone' = TRUE
    /\ rExit' = ExitStatus(rHadFatal)
    /\ rPhase' = "exited"
    /\ UNCHANGED <<rFiles, rToday, rSelected, rPos, rHadFatal, rIndex, rTried, rFailed, rLast>>
    /\ UNCHANGED <<normVars, matchVars, repeatVars, parseVars>>

NextRun == StartRun \/ NoVenueMatched \/ SkipFailedVenue \/ ScrapeRaises \/ UpdateVenue \/ FinishRun

SpecRun == InitRun /\ [][NextRun]_vars

-----------------------------------------------------------------------------
(* Runs of runUpdate for one venue (--venue <id>), one after the other *)

\* the loop iteration of a run whose scrape reported an error or raised
FailedIteration(v, previous) ==
    [NoIteration EXCEPT !.venue = v, !.outcome = "failed", !.before = previous]

\* the show at "u1" as a page lists it once it was changed: with the headliner
\* "B" instead of "A", or moved to day 2
ChangedListings ==
    {[dateISO |-> DateText(1), time24 |-> <<20, 0>>, headliner |-> <<66>>,
      openers |-> <<>>, showUrl |-> <<117, 49>>],
     [dateISO |-> DateText(2), time24 |-> <<20, 0>>, headliner |-> <<65>>,
      openers |-> <<>>, showUrl |-> <<117, 49>>]}

\* the pages of the runs: those of Pages that list "B" without opener, and a
\* changed listing alone
PagesAgain(v) ==
    {p \in Pages(v) : \A i \in DOMAIN p : p[i].headliner = <<66>> => p[i].openers = <<>>}
    \cup {<<l>> : l \in ChangedListings}

\* what the scrape of a run comes to: what gatherScrapedShows reports when it
\* emits no rows, or the rows of a page
GatheredAgain(v) ==
    {o \in Gathered(v) : o.kind # "scraped"}
    \cup {Scraped(buildShows(p)) : p \in PagesAgain(v)}

\* what is kept of a run once another run followed it: the rows it was given
\* and whether it wrote the file
Earlier(run) ==
    [todayISO |-> run.todayISO,
     it |-> [NoIteration EXCEPT !.venue = run.it.venue, !.outcome = run.it.outcome,
                                !.rows = run.it.rows, !.wrote = run.it.wrote]]

\* the last two of the runs so far and the run just made
LastTwo(runs, run) ==
    IF runs = <<>> THEN <<run>> ELSE <<Earlier(runs[Len(runs)]), run>>

InitRepeat ==
    /\ tVenue \in DOMAIN venues
    /\ tFile \in {MissingFile, InvalidFile}
    /\ tToday = DateText(1)
    /\ tRuns = <<>>
    /\ NormIdle
    /\ MatchIdle
    /\ RunIdle
    /\ ParseIdle

\* a run whose scrape emitted rows and no error: the loop iteration, and the
\* write if there is one. The clock never goes back.
RunVenue ==
    /\ \E todayISO \in Dates, o \in GatheredAgain(tVenue) :
           /\ ~StrLess(todayISO, tToday)
           /\ o.kind = "scraped"
           /\ tToday' = todayISO
           /\ \E it \in {Iteration(tVenue, tFile, o.scraped, todayISO)} :
                  /\ tRuns' = LastTwo(tRuns, [todayISO |-> todayISO, it |-> it])
                  /\ tFile' = IF it.wrote
                               THEN DataFile(PayloadShows(it.showsWithIds, it.before.shows,
                                                          todayISO))
                               ELSE tFile
    /\ UNCHANGED tVenue
    /\ UNCHANGED <<normVars, matchVars, runVars, parseVars>>

\* a run whose scrape reported an error or raised: the file is left alone
RunVenueFails ==
    /\ \E todayISO \in Dates, o \in GatheredAgain(tVenue) :
           /\ ~StrLess(todayISO, tToday)
           /\ o.kind # "scraped"
           /\ tToday' = todayISO
           /\ tRuns' = LastTwo(tRuns, [todayISO |-> todayISO,
                                       it |-> FailedIteration(tVenue, tFile)])
    /\ UNCHANGED <<tVenue, tFile>>
    /\ UNCHANGED <<normVars, matchVars, runVars, parseVars>>

NextRepeat == RunVenue \/ RunVenueFails

SpecRepeat == InitRepeat /\ [][NextRepeat]_vars

-----------------------------------------------------------------------------
(* Text extraction utilities (src/server/venues/utils.ts): what the regular
   expressions match, on texts as sequences of code units *)

\* \d
IsDigit(c) == c \in 48..57

\* \s, for the white space of the model's texts: tab, line feed, space
IsSpace(c) == c \in {9, 10, Space}

\* \w
IsWordChar(c) == c \in 48..57 \/ c \in 65..90 \/ c \in 97..122 \/ c = 95

\* String.prototype.toLowerCase on ASCII
toLowerCase(text) ==
    [i \in DOMAIN text |-> IF text[i] \in 65..90 THEN text[i] + 32 ELSE text[i]]

\* String.prototype.trim
trim(text) ==
    LET inked == {i \in DOMAIN text : ~IsSpace(text[i])}
    IN  IF inked = {} THEN Empty
        ELSE SubSeq(text, CHOOSE i \in inked : \A j \in inked : i <= j,
                          CHOOSE i \in inked : \A j \in inked : j <= i)

\* the word stands in the text at position i
StartsWithAt(text, i, word) ==
    /\ i >= 1 /\ i + Len(word) - 1 <= Len(text)
    /\ SubSeq(text, i, i + Len(word) - 1) = word

\* Number.parseInt(digits, 10) on a text of digits
RECURSIVE parseInt(_)
parseInt(digits) ==
    IF digits = Empty THEN 0
    ELSE 10 * parseInt(SubSeq(digits, 1, Len(digits) - 1)) + (digits[Len(digits)] - Digit0)

\* n.toString() for n >= 0
RECURSIVE NumberText(_)
NumberText(n) ==
    IF n < 10 THEN <<Digit0 + n>> ELSE NumberText(n \div 10) \o <<Digit0 + (n % 10)>>

\* how many digits \d{1,most} takes at position i: as many as there are, at
\* most  most
CountDigits(text, i, most) ==
    Cardinality({k \in 1..most :
                    \A j \in 0..(k - 1) : i + j <= Len(text) /\ IsDigit(text[i + j])})

\* where \s* ends when it starts at position i
SkipSpaces(text, i) ==
    LET inked == {j \in i..Len(text) : ~IsSpace(text[j])}
    IN  IF inked = {} THEN Len(text) + 1 ELSE CHOOSE j \in inked : \A k \in inked : j <= k

\* Date.UTC(year, monthIndex, day) in days since 1970-01-01 instead of
\* milliseconds; a month index outside 0..11 and a day outside the month carry
\* over as Date.UTC carries them
DateUTC(year, monthIndex, day) ==
    LET y == year + (monthIndex \div 12)
        m == (monthIndex % 12) + 1
        yy == IF m <= 2 THEN y - 1 ELSE y
        era == yy \div 400
        yoe == yy - era * 400
        doy == (153 * ((m + 9) % 12) + 2) \div 5 + day - 1
        doe == yoe * 365 + (yoe \div 4) - (yoe \div 100) + doy
    IN  era * 146097 + doe - 719468

\* a variant that also advances a date exactly 31 days before the reference
inferYearFrom31Days(month, day, referenceDate) ==
    IF DateUTC(referenceDate.year, month - 1, day)
           <= DateUTC(referenceDate.year, referenceDate.month - 1, referenceDate.day) - 31
    THEN referenceDate.year + 1
    ELSE referenceDate.year

\* a variant that places a date more than 31 days ahead in the year before
inferYearRollingBack(month, day, referenceDate) ==
    LET referenceUTC == DateUTC(referenceDate.year, referenceDate.month - 1,
                                referenceDate.day)
        candidateUTC == DateUTC(referenceDate.year, month - 1, day)
    IN  IF candidateUTC < referenceUTC - 31 THEN referenceDate.year + 1
        ELSE IF candidateUTC > referenceUTC + 31 THEN referenceDate.year - 1
        ELSE referenceDate.year

\* inferYear. A reference date is [year, month, day], its UTC calendar date
\* with the month counted from 1; oneMonthMs is 31 days.
inferYear(month, day, referenceDate) ==
    LET referenceUTC == DateUTC(referenceDate.year, referenceDate.month - 1,
                                referenceDate.day)
        candidateUTC == DateUTC(referenceDate.year, month - 1, day)
        oneMonth == 31
    IN  IF candidateUTC < referenceUTC - oneMonth
        THEN referenceDate.year + 1
        ELSE referenceDate.year

\* `${year}-${month.toString().padStart(2, "0")}-${day.toString().padStart(2, "0")}`
IsoText(year, month, day) ==
    NumberText(year) \o <<45>> \o PadStart2(month) \o <<45>> \o PadStart2(day)

\* The leftmost match of /(\d{1,2})S(\d{1,2})/, S being "." or "/": found,
\* the two numbers, and the position after the match
NumberPair(text, sep) ==
    LET PairAt(i, n) ==
            /\ CountDigits(text, i, n) = n
            /\ i + n <= Len(text) /\ text[i + n] = sep
            /\ CountDigits(text, i + n + 1, 1) = 1
        starts == {i \in DOMAIN text : PairAt(i, 2) \/ PairAt(i, 1)}
    IN  IF starts = {} THEN [found |-> FALSE, first |-> 0, second |-> 0, end |-> 0]
        ELSE LET i == CHOOSE j \in starts : \A k \in starts : j <= k
                 n == IF PairAt(i, 2) THEN 2 ELSE 1
                 m == CountDigits(text, i + n + 1, 2)
             IN  [found |-> TRUE,
                  first |-> parseInt(SubSeq(text, i, i + n - 1)),
                  second |-> parseInt(SubSeq(text, i + n + 1, i + n + m)),
                  end |-> i + n + 1 + m]

\* the names the third expression takes for a month, in the order it tries
\* them, with monthMap[name]
MonthWords ==
    <<[word |-> <<106, 97, 110, 117, 97, 114, 121>>, month |-> 1],
      [word |-> <<106, 97, 110>>, month |-> 1],
      [word |-> <<102, 101, 98, 114, 117, 97, 114, 121>>, month |-> 2],
      [word |-> <<102, 101, 98>>, month |-> 2],
      [word |-> <<109, 97, 114, 99, 104>>, month |-> 3],
      [word |-> <<109, 97, 114>>, month |-> 3],
      [word |-> <<97, 112, 114, 105, 108>>, month |-> 4],
      [word |-> <<97, 112, 114>>, month |-> 4],
      [word |-> <<109, 97, 121>>, month |-> 5],
      [word |-> <<106, 117, 110, 101>>, month |-> 6],
      [word |-> <<106, 117, 110>>, month |-> 6],
      [word |-> <<106, 117, 108, 121>>, month |-> 7],
      [word |-> <<106, 117, 108>>, month |-> 7],
      [word |-> <<97, 117, 103, 117, 115, 116>>, month |-> 8],
      [word |-> <<97, 117, 103>>, month |-> 8],
      [word |-> <<115, 101, 112, 116>>, month |-> 9],
      [word |-> <<115, 101, 112, 116, 101, 109, 98, 101, 114>>, month |-> 9],
      [word |-> <<115, 101, 112>>, month |-> 9],
      [word |-> <<111, 99, 116, 111, 98, 101, 114>>, month |-> 10],
      [word |-> <<111, 99, 116>>, month |-> 10],
      [word |-> <<110, 111, 118, 101, 109, 98, 101, 114>>, month |-> 11],
      [word |-> <<110, 111, 118>>, month |-> 11],
      [word |-> <<100, 101, 99, 101, 109, 98, 101, 114>>, month |-> 12],
      [word |-> <<100, 101, 99>>, month |-> 12]>>

\* A month name of the third expression matches at position i: the word, then
\* white space, then a digit
NameAt(text, i, k) ==
    LET after == i + Len(MonthWords[k].word)
    IN  /\ StartsWithAt(text, i, MonthWords[k].word)
        /\ after <= Len(text) /\ IsSpace(text[after])
        /\ CountDigits(text, SkipSpaces(text, after), 1) = 1

\* The first alternative of the month names that matches at position i, 0 when
\* none does
FirstName(text, i) ==
    LET names == {k \in DOMAIN MonthWords : NameAt(text, i, k)}
    IN  IF names = {} THEN 0 ELSE CHOOSE k \in names : \A l \in names : k <= l

\* The match of the third expression at position i with the month name k: the
\* day of one or two digits, an optional st / nd / rd / th, and an optional
\* comma, white space and year of four digits
MonthNameDayAt(text, i, k) ==
    LET dayAt == SkipSpaces(text, i + Len(MonthWords[k].word))
        dayLen == CountDigits(text, dayAt, 2)
        ordinal == \E suffix \in {<<115, 116>>, <<110, 100>>, <<114, 100>>,
                                  <<116, 104>>} :
                       StartsWithAt(text, dayAt + dayLen, suffix)
        commaAt == IF ordinal THEN dayAt + dayLen + 2 ELSE dayAt + dayLen
        yearAt == SkipSpaces(text, commaAt + 1)
        hasYear == /\ commaAt <= Len(text) /\ text[commaAt] = Comma
                   /\ CountDigits(text, yearAt, 4) = 4
    IN  [found |-> TRUE,
         month |-> MonthWords[k].month,
         day |-> parseInt(SubSeq(text, dayAt, dayAt + dayLen - 1)),
         hasYear |-> hasYear,
         year |-> IF hasYear THEN parseInt(SubSeq(text, yearAt, yearAt + 3))
                  ELSE 0]

\* The leftmost match of the third expression
MonthNameDay(text) ==
    LET starts == {i \in DOMAIN text : FirstName(text, i) # 0}
    IN  IF starts = {}
        THEN [found |-> FALSE, month |-> 0, day |-> 0, hasYear |-> FALSE, year |-> 0]
        ELSE CHOOSE match \in
                 {MonthNameDayAt(text, i, k) :
                      i \in {j \in starts : \A l \in starts : j <= l},
                      k \in {FirstName(text, j) : j \in {m \in starts : \A l \in starts : m <= l}}} :
                 TRUE

\* parseDateISOFromText: the dotted form, then the slashed form with its
\* optional year of two to four digits, then the month name form
parseDateISOFromText(value, referenceDate) ==
    LET normalized == toLowerCase(value)
        dotted == NumberPair(normalized, 46)
        slashed == NumberPair(normalized, 47)
        yearLen == IF slashed.found /\ slashed.end <= Len(normalized)
                      /\ normalized[slashed.end] = 47
                   THEN CountDigits(normalized, slashed.end + 1, 4) ELSE 0
        yearText == SubSeq(normalized, slashed.end + 1, slashed.end + yearLen)
        named == MonthNameDay(normalized)
    IN  IF dotted.found
            THEN IsoText(inferYear(dotted.first, dotted.second, referenceDate),
                         dotted.first, dotted.second)
        ELSE IF slashed.found
            THEN IsoText(IF yearLen >= 2
                         THEN parseInt(IF yearLen = 2 THEN <<50, 48>> \o yearText
                                       ELSE yearText)
                         ELSE inferYear(slashed.first, slashed.second, referenceDate),
                         slashed.first, slashed.second)
        ELSE IF named.found
            THEN IsoText(IF named.hasYear THEN named.year
                         ELSE inferYear(named.month, named.day, referenceDate),
                         named.month, named.day)
        ELSE Empty

\* a variant that adds 12 to every pm hour
To24HourAddingAtNoon(parsed, pm) ==
    IF pm THEN parsed + 12
    ELSE IF parsed = 12 THEN 0
    ELSE parsed

\* if (meridiem === "pm" && hour < 12) hour += 12
\* if (meridiem === "am" && hour === 12) hour = 0
To24Hour(parsed, pm) ==
    IF pm /\ parsed < 12 THEN parsed + 12
    ELSE IF ~pm /\ parsed = 12 THEN 0
    ELSE parsed

\* parseShowTime: the leftmost match of
\* /(?:show:\s*)?(\d{1,2})(?::(\d{2}))?\s*([ap]m)/i and its conversion to "HH:mm"
parseShowTime(value) ==
    LET text == toLowerCase(value)
        \* (\d{1,2}) taking n digits at position i, with or without (?::(\d{2})),
        \* then \s*([ap]m)
        NumberAt(i, n, minutes) ==
            LET meridiemAt == SkipSpaces(text, IF minutes THEN i + n + 3 ELSE i + n)
            IN  /\ CountDigits(text, i, n) = n
                /\ minutes => /\ i + n <= Len(text) /\ text[i + n] = Colon
                              /\ CountDigits(text, i + n + 1, 2) = 2
                /\ meridiemAt + 1 <= Len(text)
                /\ text[meridiemAt] \in {97, 112} /\ text[meridiemAt + 1] = 109
        TimeAt(i) == \E n \in {1, 2}, minutes \in BOOLEAN : NumberAt(i, n, minutes)
        \* where the number starts when the match starts at position i
        AfterLabel(i) ==
            IF StartsWithAt(text, i, <<115, 104, 111, 119, 58>>)
                   /\ TimeAt(SkipSpaces(text, i + 5))
            THEN SkipSpaces(text, i + 5) ELSE i
        starts == {i \in DOMAIN text : TimeAt(AfterLabel(i))}
    IN  IF starts = {} THEN Empty
        ELSE LET at == AfterLabel(CHOOSE i \in starts : \A j \in starts : i <= j)
                 n == IF NumberAt(at, 2, TRUE) \/ NumberAt(at, 2, FALSE) THEN 2 ELSE 1
                 hasMinutes == NumberAt(at, n, TRUE)
                 parsed == parseInt(SubSeq(text, at, at + n - 1))
                 minutes == IF hasMinutes THEN SubSeq(text, at + n + 1, at + n + 2)
                            ELSE <<Digit0, Digit0>>
                 meridiemAt == SkipSpaces(text, IF hasMinutes THEN at + n + 3 ELSE at + n)
                 hour == To24Hour(parsed, text[meridiemAt] = 112)
             IN  (IF hour < 10 THEN <<Digit0>> ELSE Empty) \o NumberText(hour)
                     \o <<Colon>> \o minutes

\* value.replace(/\bwith\s+/gi, ""), from position i on
RECURSIVE RemoveWith(_, _)
RemoveWith(text, i) ==
    IF i > Len(text) THEN Empty
    ELSE IF /\ StartsWithAt(toLowerCase(text), i, <<119, 105, 116, 104>>)
            /\ i + 4 <= Len(text) /\ IsSpace(text[i + 4])
            /\ (i = 1 \/ ~IsWordChar(text[i - 1]))
        THEN RemoveWith(text, SkipSpaces(text, i + 4))
    ELSE <<text[i]>> \o RemoveWith(text, i + 1)

\* text.split(",")
RECURSIVE Split(_)
Split(text) ==
    LET commas == {i \in DOMAIN text : text[i] = Comma}
    IN  IF commas = {} THEN <<text>>
        ELSE LET first == CHOOSE i \in commas : \A j \in commas : i <= j
             IN  <<SubSeq(text, 1, first - 1)>> \o Split(SubSeq(text, first + 1, Len(text)))

\* a variant that keeps every piece that is not empty
IsNoPlaceholder(item) == FALSE

\* /^tba$/i, /^support\s*tba$/i or /^more\s*tba$/i matches the item
IsPlaceholder(item) ==
    LET text == toLowerCase(item)
        tba == <<116, 98, 97>>
        TbaAfter(word) ==
            /\ StartsWithAt(text, 1, word)
            /\ SubSeq(text, SkipSpaces(text, Len(word) + 1), Len(text)) = tba
    IN  \/ text = tba
        \/ TbaAfter(<<115, 117, 112, 112, 111, 114, 116>>)
        \/ TbaAfter(<<109, 111, 114, 101>>)

\* splitOpeners
splitOpeners(value) ==
    LET lower == toLowerCase(value)
        \* .replace(/^with\s+/i, "")
        first == IF StartsWithAt(lower, 1, <<119, 105, 116, 104>>)
                       /\ 5 <= Len(value) /\ IsSpace(value[5])
                 THEN SubSeq(value, SkipSpaces(value, 5), Len(value)) ELSE value
        \* .replace(/^w\/\s*/i, "")
        second == IF StartsWithAt(toLowerCase(first), 1, <<119, 47>>)
                  THEN SubSeq(first, SkipSpaces(first, 3), Len(first)) ELSE first
        cleaned == trim(RemoveWith(second, 1))
        items == [k \in DOMAIN Split(cleaned) |-> trim(Split(cleaned)[k])]
    IN  IF cleaned = Empty THEN <<>>
        ELSE SelectSeq(items, LAMBDA item : item # Empty /\ ~IsPlaceholder(item))

-----------------------------------------------------------------------------
(* The text utilities applied to the texts of calendar pages *)

\* the reference dates: 2026-01-05, 2026-02-01, 2024-03-03, 2026-12-20
RefDates ==
    {[year |-> 2026, month |-> 1, day |-> 5], [year |-> 2026, month |-> 2, day |-> 1],
     [year |-> 2024, month |-> 3, day |-> 3], [year |-> 2026, month |-> 12, day |-> 20]}

\* the ways a page writes a date: "3.15", "03.15", "Sat 3/15", "Mar 15",
\* "March 15th" without a year; "3/15/27", "3/15/2027", "Mar 15, 2027" with one
DateForms ==
    {"M.D", "MM.DD", "Sat M/D", "Mon D", "Month Dth", "M/D/YY", "M/D/YYYY", "Mon D, YYYY"}

\* the English name of a month, with a capital
MonthName(month) ==
    LET words == {k \in DOMAIN MonthWords : MonthWords[k].month = month}
        long == MonthWords[CHOOSE k \in words :
                               \A l \in words : Len(MonthWords[l].word) <= Len(MonthWords[k].word)]
    IN  <<long.word[1] - 32>> \o Tail(long.word)

\* a date as a page writes it
WrittenDate(form, month, day) ==
    CASE form = "M.D" -> NumberText(month) \o <<46>> \o NumberText(day)
      [] form = "MM.DD" -> PadStart2(month) \o <<46>> \o PadStart2(day)
      [] form = "Sat M/D" -> <<83, 97, 116, Space>> \o NumberText(month) \o <<47>> \o NumberText(day)
      [] form = "Mon D" -> SubSeq(MonthName(month), 1, 3) \o <<Space>> \o NumberText(day)
      [] form = "Month Dth" ->
            MonthName(month) \o <<Space>> \o NumberText(day) \o <<116, 104>>
      [] form = "M/D/YY" ->
            NumberText(month) \o <<47>> \o NumberText(day) \o <<47, 50, 55>>
      [] form = "M/D/YYYY" ->
            NumberText(month) \o <<47>> \o NumberText(day) \o <<47, 50, 48, 50, 55>>
      [] form = "Mon D, YYYY" ->
            SubSeq(MonthName(month), 1, 3) \o <<Space>> \o NumberText(day)
                \o <<Comma, Space, 50, 48, 50, 55>>

DateInputs ==
    {[fn |-> "parseDateISOFromText", text |-> WrittenDate(form, month, day),
      form |-> form, month |-> month, day |-> day, referenceDate |-> ref] :
        form \in DateForms, month \in 1..12, day \in 1..31, ref \in RefDates}

\* a time as a page writes it: a label, the hour, minutes or none, a gap and
\* the meridiem
WrittenTime(label, hour, minutes, gap, meridiem) ==
    label \o NumberText(hour)
        \o (IF minutes = Empty THEN Empty ELSE <<Colon>> \o minutes) \o gap \o meridiem

\* the texts with one time: hours 0 to 13
SingleTimes ==
    {[fn |-> "parseShowTime", kind |-> "single",
      text |-> WrittenTime(label, hour, minutes, gap, meridiem),
      hour |-> hour, minutes |-> minutes, pm |-> toLowerCase(meridiem) = <<112, 109>>,
      doors |-> 0] :
        label \in {Empty, <<115, 104, 111, 119, 58, 32>>, <<100, 111, 111, 114, 115, 32>>, <<83, 72, 79, 87, 58>>},
        hour \in 0..13,
        minutes \in {Empty, <<48, 48>>, <<51, 48>>, <<53, 57>>},
        gap \in {Empty, <<Space>>},
        meridiem \in {<<97, 109>>, <<112, 109>>, <<65, 77>>, <<80, 109>>}}

\* the texts with no time: "", "tba", "8:00", "20:00", "8 p.m.", "doors",
\* "show: tba", "pm"
NoTimes ==
    {[fn |-> "parseShowTime", kind |-> "none", text |-> text,
      hour |-> 0, minutes |-> Empty, pm |-> FALSE, doors |-> 0] :
        text \in {Empty, <<116, 98, 97>>, <<56, 58, 48, 48>>, <<50, 48, 58, 48, 48>>, <<56, 32, 112, 46, 109, 46>>, <<100, 111, 111, 114, 115>>, <<115, 104, 111, 119, 58, 32, 116, 98, 97>>, <<112, 109>>}}

\* the texts with a doors time and a show time labelled "show:", in either
\* order: "doors: 7 pm / show: 8:30 pm", "show: 8:30 pm / doors: 7 pm"
BothTimes ==
    {[fn |-> "parseShowTime", kind |-> kind,
      text |-> IF kind = "doors first"
               THEN WrittenTime(<<100, 111, 111, 114, 115, 58, 32>>, doors, Empty, <<Space>>, <<112, 109>>)
                        \o <<Space, 47, Space>>
                        \o WrittenTime(<<115, 104, 111, 119, 58, 32>>, show, <<51, 48>>, <<Space>>, <<112, 109>>)
               ELSE WrittenTime(<<115, 104, 111, 119, 58, 32>>, show, <<51, 48>>, <<Space>>, <<112, 109>>)
                        \o <<Space, 47, Space>>
                        \o WrittenTime(<<100, 111, 111, 114, 115, 58, 32>>, doors, Empty, <<Space>>, <<112, 109>>),
      hour |-> show, minutes |-> <<51, 48>>, pm |-> TRUE, doors |-> doors] :
        kind \in {"doors first", "show first"}, doors \in {6, 7}, show \in {8, 9}}

TimeInputs == SingleTimes \cup NoTimes \cup BothTimes

\* what an opener line starts with: "", "with ", "With  ", "w/", "W/ "
OpenerLeads == {Empty, <<119, 105, 116, 104, 32>>, <<87, 105, 116, 104, 32, 32>>, <<119, 47>>, <<87, 47, 32>>}

\* the pieces between the commas of an opener line
OpenerPieces ==
    {<<66, 97, 110, 100, 32, 65>>,
     <<32, 66, 97, 110, 100, 32, 66>>,
     <<32, 84, 66, 65>>,
     <<83, 117, 112, 112, 111, 114, 116, 32, 116, 98, 97, 32>>,
     <<109, 111, 114, 101, 32, 84, 66, 65>>,
     <<>>,
     <<116, 98, 97, 32, 120>>,
     <<109, 111, 114, 101, 32, 32, 116, 98, 97>>,
     <<65, 32, 119, 105, 116, 104, 32, 66>>,
     <<83, 119, 105, 116, 104, 32, 67>>}

OpenerInputs ==
    {[fn |-> "splitOpeners", text |-> lead \o Join(pieces, <<Comma>>),
      lead |-> lead, pieces |-> pieces] :
        lead \in OpenerLeads, pieces \in ListsUpTo(OpenerPieces, MaxOpeners) \ {<<>>}}

InitParse ==
    /\ ParseIdle
    /\ NormIdle
    /\ MatchIdle
    /\ RunIdle
    /\ RepeatIdle

\* parseDateISOFromText called with a text and a reference date
DateParsed ==
    /\ ~pDone
    /\ \E input \in DateInputs :
           /\ pInput' = input
           /\ pOut' = parseDateISOFromText(input.text, input.referenceDate)
    /\ pDone' = TRUE
    /\ UNCHANGED <<normVars, matchVars, runVars, repeatVars>>

\* parseShowTime called with a text
TimeParsed ==
    /\ ~pDone
    /\ \E input \in TimeInputs :
           /\ pInput' = input
           /\ pOut' = parseShowTime(input.text)
    /\ pDone' = TRUE
    /\ UNCHANGED <<normVars, matchVars, runVars, repeatVars>>

\* splitOpeners called with a text
OpenersSplit ==
    /\ ~pDone
    /\ \E input \in OpenerInputs :
           /\ pInput' = input
           /\ pOut' = splitOpeners(input.text)
    /\ pDone' = TRUE
    /\ UNCHANGED <<normVars, matchVars, runVars, repeatVars>>

NextParse == DateParsed \/ TimeParsed \/ OpenersSplit

SpecParse == InitParse /\ [][NextParse]_vars

-----------------------------------------------------------------------------
(* Claims about normalizeShows, checked under SpecNorm *)

\* two lists of shows agree in length and, position by position, in showId,
\* dateISO, startTime, showUrl, headliners and openers
SameShows(a, b) ==
    /\ Len(a) = Len(b)
    /\ \A i \in DOMAIN a :
           /\ a[i].showId = b[i].showId
           /\ a[i].dateISO = b[i].dateISO
           /\ a[i].startTime = b[i].startTime
           /\ a[i].showUrl = b[i].showUrl
           /\ a[i].headliners = b[i].headliners
           /\ a[i].openers = b[i].openers

\* every row carries a show URL
RowsHaveUrl(rows) == \A i \in DOMAIN rows : rows[i].showUrl # Empty

\* rows with the same show URL agree on date and time
GroupsAgree(rows) ==
    \A i, j \in DOMAIN rows :
        rows[i].showUrl = rows[j].showUrl
            => (rows[i].date = rows[j].date /\ rows[i].time = rows[j].time)

\* no two shows of a result compare equal under the sort comparator
NoSortTies(shows) ==
    \A i, j \in DOMAIN shows : i # j => CompareShows(shows[i], shows[j]) # 0

\* C1 as stated: normalizeShows applied to any permutation of the same rows
\* returns the same list of shows (same length, same order, same showId,
\* dateISO, startTime, showUrl, headliners and openers at every position).
C1_PermutationInvariant == nDone => SameShows(nOut, nOutPerm)

\* C1 amended: when every row has a non-empty showUrl, rows with the same
\* showUrl agree on date and time, and no two shows of the result agree on
\* dateISO, startTime and headliners, normalizeShows applied to any permutation
\* of the rows returns the same list of shows.
C1_PermutationInvariantWhenUnambiguous ==
    (nDone /\ RowsHaveUrl(nRows) /\ GroupsAgree(nRows) /\ NoSortTies(nOut))
        => SameShows(nOut, nOutPerm)

\* a permuted list of rows that merges a headliner and an opener row into one
\* show
C1_Witness ==
    /\ nDone /\ RowsHaveUrl(nRows) /\ GroupsAgree(nRows) /\ NoSortTies(nOut)
    /\ nPerm # nRows
    /\ Len(nOut) = 1
    /\ \E i \in DOMAIN nOut : nOut[i].headliners # <<>> /\ nOut[i].openers # <<>>

\* the row is an opener row
IsOpenerRow(row) == row.roles = <<"opener">>

\* every opener row with a show URL shares it with a headliner row, and every
\* opener row without one comes after a headliner row of its date without one
OpenersHaveHeadliner(rows) ==
    \A i \in DOMAIN rows :
        IsOpenerRow(rows[i]) =>
            IF rows[i].showUrl # Empty
            THEN \E j \in DOMAIN rows :
                     ~IsOpenerRow(rows[j]) /\ rows[j].showUrl = rows[i].showUrl
            ELSE \E j \in 1..(i - 1) :
                     /\ ~IsOpenerRow(rows[j])
                     /\ rows[j].showUrl = Empty
                     /\ rows[j].date = rows[i].date

\* C12 as stated: every show returned by normalizeShows has at least one
\* headliner, for every list of raw rows with non-empty artists and role
\* headliner or opener.
C12_HeadlinersNonEmpty ==
    nDone => \A i \in DOMAIN nOutPerm : nOutPerm[i].headliners # <<>>

\* C12 amended: every show returned by normalizeShows has at least one
\* headliner, for every list of raw rows with non-empty artists in which every
\* opener row with a showUrl shares it with a headliner row and every opener
\* row without a showUrl comes after a headliner row of the same date without
\* a showUrl.
C12_HeadlinersNonEmptyWhenRowsHaveOne ==
    (nDone /\ OpenersHaveHeadliner(nPerm))
        => \A i \in DOMAIN nOutPerm : nOutPerm[i].headliners # <<>>

\* an opener row without URL follows the headliner row of its date and joins
\* its show
C12_Witness ==
    /\ nDone /\ OpenersHaveHeadliner(nPerm)
    /\ \E i \in DOMAIN nPerm : IsOpenerRow(nPerm[i]) /\ nPerm[i].showUrl = Empty
    /\ Len(nOutPerm) = 1
    /\ nOutPerm[1].headliners # <<>> /\ nOutPerm[1].openers # <<>>

\* the shows of the two runs of normalizeShows
BothRuns == Range(nOut) \cup Range(nOutPerm)

\* two shows agree on venueId, dateISO, showUrl and headliners
SameIdentity(a, b) ==
    /\ a.venueId = b.venueId
    /\ a.dateISO = b.dateISO
    /\ a.showUrl = b.showUrl
    /\ a.headliners = b.headliners

\* C13: two shows produced by normalizeShows, in the same run or in different
\* runs, that agree on venueId, dateISO, showUrl and the sorted list of
\* headliners have the same showId, whatever their startTime, openers,
\* venueName and sourceUrl and the order of the rows they come from.
C13_ShowIdFromContent ==
    nDone => \A a, b \in BothRuns : SameIdentity(a, b) => a.showId = b.showId

\* the same rows in two orders give a show with the same identity fields and
\* the same showId, once with a start time and once without
C13_Witness ==
    /\ nDone
    /\ nPerm # nRows
    /\ \E a \in Range(nOut), b \in Range(nOutPerm) :
            /\ SameIdentity(a, b)
            /\ a.startTime # b.startTime
            /\ a.openers # <<>>
            /\ a.showId = b.showId

\* every name of the list is below the next one in code unit order
StrictlyAscending(names) ==
    \A k \in 1..(Len(names) - 1) : StrLess(names[k], names[k + 1])

\* C15: in every show returned by normalizeShows, headliners and openers are
\* each in strictly ascending order: sorted and with no name repeated.
C15_NamesSortedUnique ==
    nDone =>
        \A i \in DOMAIN nOutPerm :
            /\ StrictlyAscending(nOutPerm[i].headliners)
            /\ StrictlyAscending(nOutPerm[i].openers)

\* the rows name the openers "B" then "A" of one show, or the same opener
\* twice, and the show lists them in order, each once
C15_Witness ==
    /\ nDone
    /\ Len(nPerm) = 2
    /\ IsOpenerRow(nPerm[1]) /\ IsOpenerRow(nPerm[2])
    /\ ~StrLess(nPerm[1].artists[1], nPerm[2].artists[1])
    /\ Len(nOutPerm) = 1
    /\ nOutPerm[1].openers # <<>>
    /\ StrictlyAscending(nOutPerm[1].openers)

\* show a comes before show b, or with it, in the order of the claim: dateISO
\* ascending, then startTime ascending with an unknown startTime after every
\* known one, then the comma-joined headliners
InClaimedOrder(a, b) ==
    IF a.dateISO # b.dateISO THEN StrLess(a.dateISO, b.dateISO)
    ELSE IF a.startTime # b.startTime
        THEN \/ b.startTime = Null
             \/ a.startTime # Null /\ StrLess(a.startTime, b.startTime)
    ELSE ~StrLess(Join(b.headliners, <<Comma>>), Join(a.headliners, <<Comma>>))

\* C26: the list returned by normalizeShows is ordered by dateISO ascending,
\* then by startTime ascending with shows of unknown (null) startTime placed
\* after all shows of the same date that have a time, then by the
\* comma-joined headliners.
C26_SortedWithUnknownTimeLast ==
    nDone => \A i, j \in DOMAIN nOutPerm : i < j => InClaimedOrder(nOutPerm[i], nOutPerm[j])

\* the artists of the rows given that have a date and a role
ArtistsOfRows(date, role) ==
    UNION {Range(nPerm[k].artists) :
              k \in {n \in DOMAIN nPerm : nPerm[n].date = date /\ RowRole(nPerm[n]) = role}}

\* C28: every show returned by normalizeShows contains only artists from raw
\* rows whose date equals the show's dateISO: rows with different dates are
\* never merged into one show, also when they carry the same non-empty showUrl.
C28_ArtistsOfTheDate ==
    nDone =>
        \A i \in DOMAIN nOutPerm :
            /\ Range(nOutPerm[i].headliners) \subseteq ArtistsOfRows(nOutPerm[i].dateISO, "headliner")
            /\ Range(nOutPerm[i].openers) \subseteq ArtistsOfRows(nOutPerm[i].dateISO, "opener")

\* row k has no showUrl and is an opener row
IsDateOnlyOpener(k) == nPerm[k].showUrl = Empty /\ RowRole(nPerm[k]) = "opener"

\* the rows before row k that have its date and no showUrl
DateOnlyBefore(k) ==
    {q \in 1..(k - 1) : nPerm[q].showUrl = Empty /\ nPerm[q].date = nPerm[k].date}

\* row q, without showUrl, is the row a show was created for: a headliner row
\* when no earlier headliner row without showUrl has its date and artists, an
\* opener row when no earlier row without showUrl has its date
StartsShow(q) ==
    IF RowRole(nPerm[q]) = "opener" THEN DateOnlyBefore(q) = {}
    ELSE \A r \in DateOnlyBefore(q) :
             RowRole(nPerm[r]) = "opener" \/ nPerm[r].artists # nPerm[q].artists

\* the headliners of the show opener row k is to be added to: those of the
\* last row before it that a show of its date without showUrl was created
\* for, none when that row is an opener row or there is no such row
HostHeadliners(k) ==
    LET starts == {q \in DateOnlyBefore(k) : StartsShow(q)}
        last == CHOOSE q \in starts : \A r \in starts : r <= q
    IN  IF starts = {} THEN <<>>
        ELSE IF RowRole(nPerm[last]) = "opener" THEN <<>>
        ELSE nPerm[last].artists

\* C30: in normalizeShows, an opener row with no showUrl is added to the most
\* recently created show of the same run that has the same date and no
\* showUrl; when there is no such show it starts a new show of its own, with
\* no headliner, and every later opener row with no showUrl and the same date
\* joins a show rather than being dropped.
C30_OpenerJoinsLastDateOnlyShow ==
    nDone =>
        \A k \in DOMAIN nPerm :
            IsDateOnlyOpener(k) =>
                \E i \in DOMAIN nOutPerm :
                    /\ nOutPerm[i].dateISO = nPerm[k].date
                    /\ nOutPerm[i].showUrl = Null
                    /\ nOutPerm[i].headliners = HostHeadliners(k)
                    /\ Range(nPerm[k].artists) \subseteq Range(nOutPerm[i].openers)

\* two headliner rows of one date without showUrl created two shows, and the
\* opener row after them was added to the second and not to the first
C30_Witness ==
    /\ nDone
    /\ Len(nPerm) = 3
    /\ ~IsDateOnlyOpener(1) /\ ~IsDateOnlyOpener(2) /\ IsDateOnlyOpener(3)
    /\ DateOnlyBefore(3) = {1, 2}
    /\ nPerm[1].artists # nPerm[2].artists
    /\ Len(nOutPerm) = 2
    /\ \E i, j \in DOMAIN nOutPerm :
           /\ nOutPerm[i].headliners = nPerm[2].artists
           /\ nOutPerm[i].openers = nPerm[3].artists
           /\ nOutPerm[j].headliners = nPerm[1].artists
           /\ nOutPerm[j].openers = <<>>

-----------------------------------------------------------------------------
(* Claims about the matching cascade, checked under SpecMatch *)

\* the fields of the stable key: dateISO, venueId, showUrl, headliners
SameStableFields(a, b) ==
    /\ a.dateISO = b.dateISO
    /\ a.venueId = b.venueId
    /\ OrEmpty(a.showUrl) = OrEmpty(b.showUrl)
    /\ a.headliners = b.headliners

\* next record j has the stable fields of previous record i, of no other
\* previous record, and no other next record has them
OnlyStableCounterpart(i, j) ==
    /\ SameStableFields(mPrev[i], mNext[j])
    /\ \A i2 \in DOMAIN mPrev : SameStableFields(mPrev[i2], mNext[j]) => i2 = i
    /\ \A j2 \in DOMAIN mNext : SameStableFields(mNext[j2], mNext[j]) => j2 = j

\* C2: a next record whose stable key is the stable key of exactly one previous
\* record, and of no other next record, is returned by preserveShowIds with the
\* showId of that previous record, whatever its startTime and openers are.
C2_StableKeyKeepsShowId ==
    mPreserved =>
        \A i \in DOMAIN mPrev, j \in DOMAIN mNext :
            OnlyStableCounterpart(i, j) => mResult[j].showId = mPrev[i].showId

\* an opener was added to one of two shows, and the show keeps its old showId
C2_Witness ==
    /\ mPreserved
    /\ Len(mPrev) = 2 /\ Len(mNext) = 2
    /\ \E i \in DOMAIN mPrev, j \in DOMAIN mNext :
            /\ OnlyStableCounterpart(i, j)
            /\ mPrev[i].openers = <<>> /\ mNext[j].openers # <<>>
            /\ mNext[j].showId # mPrev[i].showId
            /\ mResult[j].showId = mPrev[i].showId

\* the previous records pass k could pair next record j with: those not paired
\* when the pass started that have the key of j
Candidates(k, j) ==
    {i \in DOMAIN mPrev :
        /\ i \notin mPasses[k].before.matchedPrev
        /\ PassKey(k, mPrev[i]) = PassKey(k, mNext[j])}

\* C3: in every pass, a pair is made only when the key of the next record is
\* non-empty and exactly one previous record not yet paired when the pass
\* started has it; a next record with two or more such previous records is
\* left unpaired by the pass.
C3_PairsOnlyUniqueCandidate ==
    mPreserved =>
        \A k \in 1..5 :
            /\ \A n \in DOMAIN mPasses[k].pairs :
                    LET pair == mPasses[k].pairs[n]
                    IN  /\ PassKey(k, mNext[pair.nextIndex]) # Empty
                        /\ Candidates(k, pair.nextIndex) = {pair.prevIndex}
            /\ \A j \in DOMAIN mNext :
                    Cardinality(Candidates(k, j)) >= 2
                        => \A n \in DOMAIN mPasses[k].pairs :
                               mPasses[k].pairs[n].nextIndex # j

\* a next record has two candidates in the stable-key pass, is skipped by it,
\* and no later pass pairs it: it ends with its own showId
C3_Witness ==
    /\ mPreserved
    /\ \E j \in DOMAIN mNext :
            /\ Cardinality(Candidates(2, j)) = 2
            /\ PassKey(2, mNext[j]) # Empty
            /\ \A k \in 1..5 : j \notin mPasses[k].after.matchedNext
            /\ mResult[j].showId = mNext[j].showId

\* the next records some pass paired
PairedNext == UNION {{mPasses[k].pairs[n].nextIndex : n \in DOMAIN mPasses[k].pairs} : k \in 1..5}

\* the previous records some pass paired
PairedPrev == UNION {{mPasses[k].pairs[n].prevIndex : n \in DOMAIN mPasses[k].pairs} : k \in 1..5}

\* C4: a next record paired by none of the five passes has in the result of
\* preserveShowIds the showId it had on input, the content hash of the record.
C4_UnpairedKeepsContentHash ==
    mPreserved =>
        \A j \in DOMAIN mNext :
            j \notin PairedNext
                => /\ mResult[j].showId = mNext[j].showId
                   /\ mResult[j].showId = buildShowId(mNext[j])

\* one next record is paired and takes an old showId, another is paired by no
\* pass and keeps its content hash
C4_Witness ==
    /\ mPreserved
    /\ \E j \in DOMAIN mNext :
            /\ j \notin PairedNext
            /\ mResult[j].showId = buildShowId(mNext[j])
    /\ \E j \in DOMAIN mNext :
            /\ j \in PairedNext
            /\ mResult[j].showId # mNext[j].showId

\* C5: diffShows returns unchanged = the pairs of the exact-key pass, updated =
\* the pairs of the four later passes together, removed = the previous records
\* in no pair, added = the next records in no pair; with two previous and two
\* next records, one pair made by the stable-key pass and no other pair, the
\* counts are unchanged 0, updated 1, added 1, removed 1.
C5_DiffCounts ==
    mDiffed =>
        /\ mCounts.unchanged = Len(mPasses[1].pairs)
        /\ mCounts.updated = Len(mPasses[2].pairs) + Len(mPasses[3].pairs)
                                + Len(mPasses[4].pairs) + Len(mPasses[5].pairs)
        /\ mCounts.removed = Cardinality(DOMAIN mPrev \ PairedPrev)
        /\ mCounts.added = Cardinality(DOMAIN mNext \ PairedNext)
        /\ (/\ Len(mPrev) = 2 /\ Len(mNext) = 2
            /\ Len(mPasses[2].pairs) = 1
            /\ \A k \in {1, 3, 4, 5} : mPasses[k].pairs = <<>>)
               => mCounts = [removed |-> 1, unchanged |-> 0, updated |-> 1, added |-> 1]

\* previous [S1, S2], next [S1', S3]: S1' pairs with S1 by stable key only and
\* S3 pairs with nothing
C5_Witness ==
    /\ mDiffed
    /\ Len(mPrev) = 2 /\ Len(mNext) = 2
    /\ Len(mPasses[2].pairs) = 1
    /\ \A k \in {1, 3, 4, 5} : mPasses[k].pairs = <<>>
    /\ mCounts = [removed |-> 1, unchanged |-> 0, updated |-> 1, added |-> 1]

\* the pairs of all five passes of preserveShowIds
AllPairs ==
    UNION {{mPasses[k].pairs[n] : n \in DOMAIN mPasses[k].pairs} : k \in 1..5}

\* C21: in one call of preserveShowIds, each previous record is paired with at
\* most one next record over the whole cascade, so no previous record's showId
\* is given to two different next records, also when two next records share a
\* key that exactly one previous record has.
C21_PreviousPairedOnce ==
    mPreserved =>
        \A p, q \in AllPairs : p.prevIndex = q.prevIndex => p.nextIndex = q.nextIndex

\* C25: for every previous and next batch, the counts of diffShows partition
\* both batches: unchanged + updated + removed is the number of previous
\* records, and unchanged + updated + added is the number of next records.
C25_CountsPartition ==
    mDiffed =>
        /\ mCounts.unchanged + mCounts.updated + mCounts.removed = Len(mPrev)
        /\ mCounts.unchanged + mCounts.updated + mCounts.added = Len(mNext)

\* no pair of a pass shares its previous record or its next record with a pair
\* of an earlier pass
NeverPairedAgain(passes) ==
    \A k \in 1..4 : \A k2 \in (k + 1)..5 :
        \A n \in DOMAIN passes[k].pairs, n2 \in DOMAIN passes[k2].pairs :
            /\ passes[k].pairs[n].prevIndex # passes[k2].pairs[n2].prevIndex
            /\ passes[k].pairs[n].nextIndex # passes[k2].pairs[n2].nextIndex

\* C23: a previous record or a next record that is paired in one pass of the
\* cascade is never paired again in a later pass, in both preserveShowIds and
\* diffShows: each pass considers only the records left unpaired by all
\* earlier passes.
C23_NeverPairedInLaterPass ==
    /\ mPreserved => NeverPairedAgain(mPasses)
    /\ mDiffed => NeverPairedAgain(mDiffPasses)

\* in diffShows a later pass makes a pair by a key that a previous record
\* paired by an earlier pass has too: that record was not considered again
C23_Witness ==
    /\ mDiffed
    /\ \E k \in 1..4 : \E k2 \in (k + 1)..5 :
           \E n \in DOMAIN mDiffPasses[k].pairs, n2 \in DOMAIN mDiffPasses[k2].pairs :
               /\ mDiffPasses[k].pairs[n].prevIndex # mDiffPasses[k2].pairs[n2].prevIndex
               /\ PassKey(k2, mPrev[mDiffPasses[k].pairs[n].prevIndex])
                      = PassKey(k2, mResult[mDiffPasses[k2].pairs[n2].nextIndex])

\* the next records that have the showId of a previous record in the result of
\* preserveShowIds
ReceivedShowId ==
    {j \in DOMAIN mResult : \E i \in DOMAIN mPrev : mResult[j].showId = mPrev[i].showId}

\* the next records that have their own showId in the result of preserveShowIds;
\* the showIds of the previous batch are no content hashes, so a record that
\* was assigned a showId is told from one that kept its own
KeptShowId == {j \in DOMAIN mResult : mResult[j].showId = mNext[j].showId}

\* the next records some pass of diffShows paired
DiffPairedNext ==
    UNION {{mDiffPasses[k].pairs[n].nextIndex : n \in DOMAIN mDiffPasses[k].pairs} :
               k \in 1..5}

\* a batch with every showId replaced by the empty string
WithoutShowIds(shows) == [i \in DOMAIN shows |-> [shows[i] EXCEPT !.showId = Empty]]

\* C24: the next records that receive a previous record's showId in
\* preserveShowIds are exactly the next records that diffShows pairs on the
\* same batches, and their number is unchanged + updated; the next records
\* that keep their own showId are exactly those counted as added; and the
\* result of diffShows does not depend on any showId value.
C24_PreserveAgreesWithDiff ==
    mDiffed =>
        /\ ReceivedShowId = DiffPairedNext
        /\ Cardinality(ReceivedShowId) = mCounts.unchanged + mCounts.updated
        /\ KeptShowId = DOMAIN mNext \ DiffPairedNext
        /\ Cardinality(KeptShowId) = mCounts.added
        /\ mCounts = diffShows(mPrev, mNext)
        /\ mCounts = diffShows(WithoutShowIds(mPrev), WithoutShowIds(mNext))

\* one next record is paired by the last pass alone and receives a showId,
\* another keeps its own and is counted as added
C24_Witness ==
    /\ mDiffed
    /\ Len(mNext) = 2
    /\ Len(mDiffPasses[5].pairs) = 1
    /\ Cardinality(ReceivedShowId) = 1
    /\ Cardinality(KeptShowId) = 1
    /\ mCounts.updated = 1 /\ mCounts.added = 1

\* C29: preserveShowIds returns a list with the same length and order as the
\* next batch in which every field other than showId equals the field of the
\* next record at the same position, and it modifies neither the next batch
\* nor the previous batch passed to it.
C29_OnlyShowIdOfResult ==
    [][(~mPreserved /\ mPreserved') =>
          /\ Len(mResult') = Len(mNext)
          /\ \A j \in DOMAIN mNext :
                 [mResult'[j] EXCEPT !.showId = Empty] = [mNext[j] EXCEPT !.showId = Empty]
          /\ mNext' = mNext
          /\ mPrev' = mPrev]_vars

\* a returned record has the showId of a previous record, and the next record
\* passed in still has its content hash
C29_Witness ==
    /\ mPreserved
    /\ \E j \in DOMAIN mNext :
           /\ mResult[j].showId # mNext[j].showId
           /\ mNext[j].showId = buildShowId(mNext[j])
           /\ \E i \in DOMAIN mPrev : mResult[j].showId = mPrev[i].showId

-----------------------------------------------------------------------------
(* Claims about runUpdate, checked under SpecRun *)

\* the shows of a list dated today or later, today being the day of the run
DatedFromToday(shows) == SelectSeq(shows, LAMBDA show : ~StrLess(show.dateISO, rToday))

\* the last loop iteration normalized rows and reached the write decision
LastUpdated == rLast.outcome = "updated"

\* what the last loop iteration had to persist: the normalized rows with the
\* showIds preserved from the file it found
LastNext == preserveShowIds(normalizeShows(venues[rLast.venue], rLast.rows), rLast.before.shows)

\* the diff of the shows dated today or later, of the file found and of LastNext
LastFutureDiff == diffShows(DatedFromToday(rLast.before.shows), DatedFromToday(LastNext))

\* a show with the showId of the show is in the list
HasShowId(shows, show) == \E k \in DOMAIN shows : shows[k].showId = show.showId

\* C6: a venue that scraped without error has its file written if and only if
\* no previous file could be read, or the diff of the previous and next shows
\* dated today or later has updated > 0, added > 0 or removed > 0.
C6_WriteDecision ==
    LastUpdated =>
        /\ rLast.wrote <=> \/ rLast.before.state # "data"
                           \/ LastFutureDiff.updated > 0
                           \/ LastFutureDiff.added > 0
                           \/ LastFutureDiff.removed > 0
        /\ rLast.wrote => rFiles[rLast.venue] = DataFile(LastNext)
        /\ ~rLast.wrote => rFiles[rLast.venue] = rLast.before

\* a file was read, the only change is a show dated today or later that is no
\* longer listed, and the file is written
C6_Witness ==
    /\ LastUpdated
    /\ rLast.before.state = "data"
    /\ LastFutureDiff.removed > 0
    /\ LastFutureDiff.updated = 0 /\ LastFutureDiff.added = 0
    /\ rLast.wrote
    /\ rFiles[rLast.venue] = DataFile(LastNext)
    /\ rFiles[rLast.venue] # rLast.before

\* C7: when a previous file exists and the diff of the shows dated today or
\* later counts only unchanged pairs, the file is not written and the persisted
\* batch is the one before the run, shows dated before today included.
C7_GateLeavesFile ==
    (/\ LastUpdated
     /\ rLast.before.state = "data"
     /\ LastFutureDiff.updated = 0
     /\ LastFutureDiff.added = 0
     /\ LastFutureDiff.removed = 0)
        => /\ ~rLast.wrote
           /\ rFiles[rLast.venue] = rLast.before

\* the page no longer lists a show dated before today, the shows dated today
\* or later are unchanged, and the file still holds the show
C7_Witness ==
    /\ LastUpdated
    /\ rLast.before.state = "data"
    /\ LastFutureDiff = [removed |-> 0, unchanged |-> 1, updated |-> 0, added |-> 0]
    /\ \E i \in DOMAIN rLast.before.shows :
            /\ StrLess(rLast.before.shows[i].dateISO, rToday)
            /\ ~HasShowId(LastNext, rLast.before.shows[i])
            /\ HasShowId(rFiles[rLast.venue].shows, rLast.before.shows[i])
    /\ ~rLast.wrote
    /\ rFiles[rLast.venue] = rLast.before

\* C8 as stated: after a run for a venue, every show of the previously
\* persisted batch dated before today is still in the persisted batch, also
\* when no next record matches it and the run writes the file.
C8_PastShowsRetained ==
    LastUpdated =>
        \A i \in DOMAIN rLast.before.shows :
            StrLess(rLast.before.shows[i].dateISO, rToday)
                => HasShowId(rFiles[rLast.venue].shows, rLast.before.shows[i])

\* C8 amended: after a run for a venue, a show of the previously persisted batch
\* dated before today is still in the persisted batch exactly when the run did
\* not write the file or a record of the next batch carries its showId; when
\* the run writes the file, the shows no next record matches disappear whatever
\* their date.
C8_PastShowsRetainedUnlessRewritten ==
    LastUpdated =>
        \A i \in DOMAIN rLast.before.shows :
            StrLess(rLast.before.shows[i].dateISO, rToday)
                => (HasShowId(rFiles[rLast.venue].shows, rLast.before.shows[i])
                        <=> (~rLast.wrote \/ HasShowId(LastNext, rLast.before.shows[i])))

\* the file held a show dated before today that the page no longer lists, a
\* show dated today changed, the file was written and the old show is gone
C8_Witness ==
    /\ LastUpdated
    /\ rLast.before.state = "data"
    /\ rLast.wrote
    /\ LastFutureDiff.updated > 0
    /\ \E i \in DOMAIN rLast.before.shows :
            /\ StrLess(rLast.before.shows[i].dateISO, rToday)
            /\ ~HasShowId(LastNext, rLast.before.shows[i])
            /\ ~HasShowId(rFiles[rLast.venue].shows, rLast.before.shows[i])

\* C9: when the scrape of a venue fails in any way, the run still goes through
\* the loop iteration of every later selected venue, in declaration order.
C9_LaterVenuesProcessed ==
    (/\ rPhase = "exited"
     /\ rFailed # {} \/ rLast.outcome = "raised")
        => rTried = rSelected

\* C10: a venue whose scrape reports an error is marked failed, its file is
\* left as it was with nothing normalized, matched or written for it, and the
\* run ends with a non-zero exit status.
C10_FailedVenueUntouched ==
    /\ rLast.outcome = "failed"
            => /\ rLast.venue \in rFailed
               /\ rHadFatal
               /\ rFiles[rLast.venue] = rLast.before
               /\ ~rLast.wrote
               /\ rLast.nextShows = <<>> /\ rLast.showsWithIds = <<>>
               /\ \A k \in DOMAIN rIndex : rIndex[k] # rLast.venue
    /\ (rPhase = "exited" /\ rFailed # {}) => rExit # 0

\* a run over all venues ended after the loop: a venue with a persisted batch
\* failed and kept it, another venue was updated, and the exit status is 1
C10_Witness ==
    /\ rPhase = "exited"
    /\ rIndexDone
    /\ rIndex # <<>>
    /\ rLast.outcome = "failed"
    /\ rLast.before.state = "data"
    /\ rFiles[rLast.venue] = rLast.before
    /\ rExit = 1

\* the content hash of a show: the hash of its venueId, dateISO, showUrl and
\* headliners
ContentHash(show) ==
    HashOfCanonical[Join(<<show.venueId, show.dateISO, OrEmpty(show.showUrl),
                           Join(show.headliners, <<Comma>>)>>, <<Pipe>>)]

\* every count is 0 but added, which is n
AllAdded(n) == [removed |-> 0, unchanged |-> 0, updated |-> 0, added |-> n]

\* C11: when the file of a venue cannot be read or is not valid JSON, the
\* previous batch is taken as empty: every next record keeps its content-hash
\* showId, the diff is added = number of next shows and unchanged = updated =
\* removed = 0, the file is written, and the venue is not marked failed.
C11_UnreadableFileIsNoBatch ==
    (LastUpdated /\ rLast.before.state # "data")
        => /\ Len(rLast.showsWithIds) = Len(rLast.nextShows)
           /\ \A i \in DOMAIN rLast.showsWithIds :
                  rLast.showsWithIds[i].showId = ContentHash(rLast.nextShows[i])
           /\ rLast.countsAll = AllAdded(Len(rLast.nextShows))
           /\ rLast.logCounts = AllAdded(Len(rLast.nextShows))
           /\ rLast.wrote
           /\ rFiles[rLast.venue] = DataFile(rLast.showsWithIds)
           /\ rLast.venue \notin rFailed
           /\ rIndex # <<>> /\ rIndex[Len(rIndex)] = rLast.venue

\* the file of a venue was not valid JSON, the page listed two shows, and the
\* file now holds the two shows with their content hashes
C11_Witness ==
    /\ LastUpdated
    /\ rLast.before.state = "invalid"
    /\ Len(rLast.nextShows) = 2
    /\ rLast.countsAll = AllAdded(2)
    /\ rFiles[rLast.venue].state = "data"
    /\ Len(rFiles[rLast.venue].shows) = 2
    /\ ~rHadFatal

-----------------------------------------------------------------------------
(* Claims about repeated runs, checked under SpecRepeat *)

\* the last two runs both normalized rows, the same rows on the same day
SameRunTwice ==
    /\ Len(tRuns) = 2
    /\ tRuns[1].it.outcome = "updated" /\ tRuns[2].it.outcome = "updated"
    /\ tRuns[1].it.rows = tRuns[2].it.rows
    /\ tRuns[1].todayISO = tRuns[2].todayISO

\* every count is 0 but unchanged, which is n
AllUnchanged(n) == [removed |-> 0, unchanged |-> n, updated |-> 0, added |-> 0]

\* the showId of the show is the showId of a show of the list
IdPersisted(show, shows) == \E k \in DOMAIN shows : shows[k].showId = show.showId

\* C14 as stated: when runUpdate is run twice in a row for a venue with the
\* same raw rows and the same today, the second run reports unchanged = number
\* of shows and updated = added = removed = 0, does not write the file, and
\* every show has the showId that was persisted after the first run.
C14_SecondRunUnchanged ==
    SameRunTwice =>
        LET second == tRuns[2].it
        IN  /\ second.logCounts = AllUnchanged(Len(second.nextShows))
            /\ ~second.wrote
            /\ tFile = second.before
            /\ \A i \in DOMAIN second.showsWithIds :
                   IdPersisted(second.showsWithIds[i], second.before.shows)

\* the first of the two runs wrote the file, or no show of the second is dated
\* before today
FirstWroteOrNoPastShow ==
    \/ tRuns[1].it.wrote
    \/ \A i \in DOMAIN tRuns[2].it.nextShows :
           ~StrLess(tRuns[2].it.nextShows[i].dateISO, tRuns[2].todayISO)

\* C14 amended: when runUpdate is run twice in a row for a venue with the same
\* raw rows and the same today, the second run does not write the file and
\* reports updated = added = removed = 0; when the first run wrote the file or
\* no show is dated before today, it reports unchanged = number of shows and
\* every show has the showId that was persisted after the first run.
C14_SecondRunUnchangedFromToday ==
    SameRunTwice =>
        LET second == tRuns[2].it
        IN  /\ ~second.wrote
            /\ tFile = second.before
            /\ second.logCounts.updated = 0
            /\ second.logCounts.added = 0
            /\ second.logCounts.removed = 0
            /\ FirstWroteOrNoPastShow =>
                   /\ second.logCounts.unchanged = Len(second.nextShows)
                   /\ \A i \in DOMAIN second.showsWithIds :
                          IdPersisted(second.showsWithIds[i], second.before.shows)

\* the page changed the headliner of a show, the first run wrote the show with
\* the showId it had, and the second run finds it unchanged with that showId
C14_Witness ==
    /\ SameRunTwice
    /\ tRuns[1].it.wrote
    /\ ~tRuns[2].it.wrote
    /\ Len(tRuns[2].it.showsWithIds) = 1
    /\ tRuns[2].it.showsWithIds[1].showId # ContentHash(tRuns[2].it.showsWithIds[1])
    /\ tRuns[2].it.showsWithIds[1].showId = tFile.shows[1].showId
    /\ tRuns[2].it.logCounts = AllUnchanged(1)

\* C22: after any sequence of runUpdate runs for one venue that starts with no
\* file, the showIds of the shows in the persisted batch are pairwise
\* distinct, the raw rows having one artist each.
C22_PersistedShowIdsDistinct ==
    tFile.state = "data" =>
        \A i, j \in DOMAIN tFile.shows :
            i # j => tFile.shows[i].showId # tFile.shows[j].showId

\* the fields of the exact key of a show: dateISO, startTime, venueId, showUrl,
\* headliners, openers
ExactFields(show) ==
    <<show.dateISO, show.startTime, show.venueId, show.showUrl, show.headliners,
      show.openers>>

\* the exact fields of the shows of a list that are dated today or later
ExactFieldsFromToday(shows, todayISO) ==
    {ExactFields(shows[i]) : i \in {k \in DOMAIN shows : ~StrLess(shows[k].dateISO, todayISO)}}

\* the last run read a file, normalized rows and did not write
LastRunSkippedWrite ==
    /\ tRuns # <<>>
    /\ tRuns[Len(tRuns)].it.outcome = "updated"
    /\ tRuns[Len(tRuns)].it.before.state = "data"
    /\ ~tRuns[Len(tRuns)].it.wrote

\* C27: whenever runUpdate skips the write of a venue because the
\* today-or-later diff has updated = added = removed = 0, the today-or-later
\* shows of the persisted batch and of the freshly normalized batch are the
\* same set under the exact key (dateISO, startTime, venueId, showUrl,
\* headliners, openers): a suppressed write never hides a change of these
\* fields in a show dated today or later.
C27_SkippedWriteHidesNoChange ==
    LastRunSkippedWrite =>
        LET last == tRuns[Len(tRuns)]
        IN  /\ tFile = last.it.before
            /\ ExactFieldsFromToday(tFile.shows, last.todayISO)
                   = ExactFieldsFromToday(last.it.nextShows, last.todayISO)

\* a write was skipped although the page no longer lists a show of the file
\* that is dated before today; the shows from today on are the same
C27_Witness ==
    /\ LastRunSkippedWrite
    /\ Len(tFile.shows) = 2
    /\ Len(tRuns[Len(tRuns)].it.nextShows) = 1
    /\ tRuns[Len(tRuns)].it.countsAll.removed = 1
    /\ ExactFieldsFromToday(tFile.shows, tRuns[Len(tRuns)].todayISO)
           = {ExactFields(tRuns[Len(tRuns)].it.nextShows[1])}

-----------------------------------------------------------------------------
(* Claims about the text utilities, checked under SpecParse *)

\* the input is a date text without a year, and it was parsed
BareDateParsed ==
    /\ pDone /\ pInput.fn = "parseDateISOFromText"
    /\ pInput.form \in {"M.D", "MM.DD", "Sat M/D", "Mon D", "Month Dth"}

\* the day of the year of a month and day; a day past the end of the month
\* counts on into the next
DayOfYear(year, month, day) ==
    <<0, 31, 59, 90, 120, 151, 181, 212, 243, 273, 304, 334>>[month] + day
        + (IF month > 2 /\ year % 4 = 0 /\ (year % 100 # 0 \/ year % 400 = 0) THEN 1 ELSE 0)

\* how many days the month and day of the input, placed in the reference
\* year, lie before the reference date
DaysBeforeReference ==
    DayOfYear(pInput.referenceDate.year, pInput.referenceDate.month,
              pInput.referenceDate.day)
        - DayOfYear(pInput.referenceDate.year, pInput.month, pInput.day)

\* "YYYY-MM-DD" with the month and day of the input
InputDateIn(year) ==
    NumberText(year) \o <<45>> \o PadStart2(pInput.month) \o <<45>> \o PadStart2(pInput.day)

\* the reference date 2026-01-05
Ref20260105 == [year |-> 2026, month |-> 1, day |-> 5]

\* C16: for a date text without an explicit year, parseDateISOFromText uses the
\* reference year plus one when the month/day placed in the reference year is
\* more than 31 days before the reference date, and the reference year
\* otherwise, exactly 31 days before included; with reference 2026-01-05,
\* "3.15" yields "2026-03-15".
C16_YearInferred ==
    BareDateParsed =>
        /\ pOut = InputDateIn(IF DaysBeforeReference > 31
                              THEN pInput.referenceDate.year + 1
                              ELSE pInput.referenceDate.year)
        /\ (pInput.text = <<51, 46, 49, 53>> /\ pInput.referenceDate = Ref20260105)
               => pOut = <<50, 48, 50, 54, 45, 48, 51, 45, 49, 53>>

\* a month name and day exactly 31 days before the reference date stay in the
\* reference year
C16_Witness ==
    /\ BareDateParsed
    /\ pInput.form = "Month Dth"
    /\ DaysBeforeReference = 31
    /\ pOut = InputDateIn(pInput.referenceDate.year)

\* the input is "12.31" with the reference date 2026-01-05, and it was parsed
DecemberParsedInJanuary ==
    /\ pDone /\ pInput.fn = "parseDateISOFromText"
    /\ pInput.text = <<49, 50, 46, 51, 49>>
    /\ pInput.referenceDate = Ref20260105

\* C17 as stated: parseDateISOFromText("12.31", reference date 2026-01-05)
\* returns "2025-12-31": a bare month/day that would be far in the future in
\* the reference year is placed in the previous year.
C17_FarFutureRollsBack ==
    DecemberParsedInJanuary => pOut = <<50, 48, 50, 53, 45, 49, 50, 45, 51, 49>>

\* C17 amended: parseDateISOFromText("12.31", reference date 2026-01-05)
\* returns "2026-12-31": a bare month/day that is later in the reference year
\* than the reference date stays in the reference year, however far ahead.
C17_FutureStaysInYear ==
    /\ DecemberParsedInJanuary => pOut = <<50, 48, 50, 54, 45, 49, 50, 45, 51, 49>>
    /\ (BareDateParsed /\ DaysBeforeReference < 0)
           => pOut = InputDateIn(pInput.referenceDate.year)

\* "12.31" parsed on 2026-01-05 is 360 days ahead and is dated 2026
C17_Witness ==
    /\ DecemberParsedInJanuary
    /\ DaysBeforeReference = -360
    /\ pOut = InputDateIn(2026)

\* "HH:MM" of an hour and the minutes of the input, "00" when it has none
TimeText(hour) ==
    PadStart2(hour) \o <<Colon>>
        \o (IF pInput.minutes = Empty THEN <<Digit0, Digit0>> ELSE pInput.minutes)

\* the hour of the input on the 24-hour clock, for hours 1 to 12
ClockHour ==
    IF pInput.hour = 12 THEN (IF pInput.pm THEN 12 ELSE 0)
    ELSE IF pInput.pm THEN pInput.hour + 12
    ELSE pInput.hour

\* the input is a text with one time, and it was parsed
OneTimeParsed == pDone /\ pInput.fn = "parseShowTime" /\ pInput.kind = "single"

\* the input is a text without a number followed by am or pm
NoTimeParsed == pDone /\ pInput.fn = "parseShowTime" /\ pInput.kind = "none"

\* C18 as stated: for every hour 1..12, optional minutes 00..59 and meridiem am
\* or pm in any letter case, parseShowTime returns the 24-hour HH:MM time (12 am
\* gives hour 00, 12 pm gives 12, every other pm hour adds 12, missing minutes
\* give 00); a text with no such time, as "0am" is, gives the empty string.
\* "show: 8:00 pm" gives "20:00" and "doors 7pm" gives "19:00".
C18_TimeConverted ==
    /\ (OneTimeParsed /\ pInput.hour \in 1..12) => pOut = TimeText(ClockHour)
    /\ (OneTimeParsed /\ pInput.hour = 0) => pOut = Empty
    /\ NoTimeParsed => pOut = Empty

\* C18 amended: for every hour 1..12, optional minutes and meridiem am or pm in
\* any letter case, parseShowTime returns the 24-hour HH:MM time (12 am gives
\* hour 00, 12 pm gives 12, every other pm hour adds 12, missing minutes give
\* 00); an hour 0 or above 12 is not rejected but converted alike (a pm hour
\* below 12 adds 12, any other hour is kept: "0am" gives "00:00", "13pm" gives
\* "13:00"); a text in which no number is followed by am or pm gives the empty
\* string. "show: 8:00 pm" gives "20:00" and "doors 7pm" gives "19:00".
C18_TimeConvertedAnyHour ==
    /\ (OneTimeParsed /\ pInput.hour \in 1..12) => pOut = TimeText(ClockHour)
    /\ (OneTimeParsed /\ pInput.hour = 0) =>
            pOut = TimeText(IF pInput.pm THEN 12 ELSE 0)
    /\ (OneTimeParsed /\ pInput.hour > 12) => pOut = TimeText(pInput.hour)
    /\ NoTimeParsed => pOut = Empty
    /\ (pDone /\ pInput.text = <<115, 104, 111, 119, 58, 32, 56, 58, 48, 48, 32, 112, 109>>) => pOut = <<50, 48, 58, 48, 48>>
    /\ (pDone /\ pInput.text = <<100, 111, 111, 114, 115, 32, 55, 112, 109>>) => pOut = <<49, 57, 58, 48, 48>>

\* "doors 7pm" gives "19:00"
C18_Witness ==
    /\ OneTimeParsed
    /\ pInput.text = <<100, 111, 111, 114, 115, 32, 55, 112, 109>>
    /\ pInput.hour = 7 /\ pInput.pm /\ pInput.minutes = Empty
    /\ pOut = <<49, 57, 58, 48, 48>>

\* C19: when a text given to parseShowTime contains both a doors time and a
\* time labelled "show:", the result is the time labelled "show:", whichever
\* of the two comes first in the text.
C19_ShowLabelWins ==
    (pDone /\ pInput.fn = "parseShowTime" /\ pInput.kind \in {"doors first", "show first"})
        => pOut = TimeText(ClockHour)

\* the placeholders the claim names, in lower case: "tba", "support tba",
\* "more tba"
NamedPlaceholders ==
    {<<116, 98, 97>>, <<115, 117, 112, 112, 111, 114, 116, 32, 116, 98, 97>>, <<109, 111, 114, 101, 32, 116, 98, 97>>}

\* the pieces of the input that are left after trimming, the empty ones and
\* the named placeholders dropped
PiecesKept ==
    SelectSeq([k \in DOMAIN pInput.pieces |-> trim(pInput.pieces[k])],
              LAMBDA item : item # Empty /\ toLowerCase(item) \notin NamedPlaceholders)

\* an opener line was split
OpenersParsed == pDone /\ pInput.fn = "splitOpeners"

\* C20 as stated: splitOpeners strips a leading "with" or "w/" connector,
\* splits the remaining text on commas and trims each piece; it returns, in
\* order, exactly the pieces that are non-empty and are not "tba", "support
\* tba" or "more tba" in any letter case, each piece otherwise unaltered.
\* "with Band A, Band B, TBA" gives ["Band A", "Band B"].
C20_OpenersSplit ==
    OpenersParsed => pOut = PiecesKept

\* a piece as splitOpeners returns it: "A with B" loses its "with " and any
\* other piece of the model is unaltered
WithoutWith(item) == IF item = <<65, 32, 119, 105, 116, 104, 32, 66>> THEN <<65, 32, 66>> ELSE item

\* "more  tba", with two spaces, is dropped as "more tba" is
PiecesKeptWithoutWith ==
    SelectSeq([k \in DOMAIN PiecesKept |-> WithoutWith(PiecesKept[k])],
              LAMBDA item : toLowerCase(item) # <<109, 111, 114, 101, 32, 32, 116, 98, 97>>)

\* C20 amended: splitOpeners strips a leading "with" or "w/" connector, removes
\* every later "with" that starts a word and is followed by white space,
\* together with that white space, splits the remaining text on commas and
\* trims each piece; it returns, in order, exactly the pieces that are
\* non-empty and are not "tba", or "support" or "more" followed by "tba" after
\* any amount of white space or none, in any letter case, each piece otherwise
\* unaltered. "with Band A, Band B, TBA" gives ["Band A", "Band B"].
C20_OpenersSplitWithoutWith ==
    /\ OpenersParsed => pOut = PiecesKeptWithoutWith
    /\ (OpenersParsed /\ pInput.text = <<119, 105, 116, 104, 32, 66, 97, 110, 100, 32, 65, 44, 32, 66, 97, 110, 100, 32, 66, 44, 32, 84, 66, 65>>)
           => pOut = <<<<66, 97, 110, 100, 32, 65>>, <<66, 97, 110, 100, 32, 66>>>>

\* "with Band A, Band B, TBA" gives ["Band A", "Band B"]
C20_Witness ==
    /\ OpenersParsed
    /\ pInput.text = <<119, 105, 116, 104, 32, 66, 97, 110, 100, 32, 65, 44, 32, 66, 97, 110, 100, 32, 66, 44, 32, 84, 66, 65>>
    /\ Len(pInput.pieces) = 3
    /\ pOut = <<<<66, 97, 110, 100, 32, 65>>, <<66, 97, 110, 100, 32, 66>>>>

====
